---- MODULE Spec2Model ----
(***************************************************************************)
(* Model of reddit-helperbot.                                              *)
(*                                                                         *)
(* Part 1: the agent loop ai_answer of llm.py: the bounded tool-calling    *)
(* completion loop, its tool dispatch and its fallback completion.         *)
(*                                                                         *)
(* Text is a sequence of one-character strings, so that str.strip() is     *)
(* computed and not assumed.                                               *)
(***************************************************************************)
EXTENDS Integers, Sequences, FiniteSets, TLC

(***************************************************************************)
(* Program constants                                                       *)
(***************************************************************************)
MAX_TOOL_STEPS == 16

\* The two fixed apology strings of ai_answer (one-"character" texts here).
APOLOGY_NO_RESPONSE == <<"I'm sorry, I couldn't generate a response right now.">>

APOLOGY_NOT_RELIABLE == <<"I'm sorry, I couldn't generate a reliable answer right now.">>

FALLBACK_INSTRUCTION == "Tool attempts are complete. Provide a best-effort final answer now"

KnownTools == {"web_search", "web_fetch", "web_render"}

(***************************************************************************)
(* Bounds of the environment                                               *)
(***************************************************************************)
\* How many times, in one invocation, the environment may deviate from the
\* plain looping behaviour (a response with empty content that requests one
\* valid web_search call, which succeeds).  Responses without tool calls and
\* the fallback response are always unrestricted.
MaxVaried == 1

(***************************************************************************)
(* Text helpers                                                            *)
(***************************************************************************)
Whitespace == {" ", "\n", "\t"}

RECURSIVE LStrip(_)
LStrip(s) ==
    IF s = <<>> THEN <<>>
    ELSE IF Head(s) \in Whitespace THEN LStrip(Tail(s))
    ELSE s

RECURSIVE RStrip(_)
RStrip(s) ==
    IF s = <<>> THEN <<>>
    ELSE IF s[Len(s)] \in Whitespace THEN RStrip(SubSeq(s, 1, Len(s) - 1))
    ELSE s

\* str.strip()
Strip(s) == RStrip(LStrip(s))

\* "\n".join(chunks)
RECURSIVE JoinLines(_)
JoinLines(chunks) ==
    IF chunks = <<>> THEN <<>>
    ELSE IF Len(chunks) = 1 THEN chunks[1]
    ELSE chunks[1] \o <<"\n">> \o JoinLines(Tail(chunks))

\* Assistant content as the provider may deliver it: a string, a list of
\* text chunks, or nothing (None).
StrContent(s) == [type |-> "str", text |-> s]

ListContent(chunks) == [type |-> "list", chunks |-> chunks]

NoneContent == [type |-> "none"]

message_content_to_text(content) ==
    IF content.type = "str" THEN content.text
    ELSE IF content.type = "list" THEN Strip(JoinLines(content.chunks))
    ELSE <<>>

(***************************************************************************)
(* Tool calls and the tool layer as the agent loop sees it                 *)
(***************************************************************************)
\* json.loads on the argument strings the environment may send.  A parsed
\* object keeps the two fields the tools validate ("" = field absent).
DictArgs(q, u) == [type |-> "dict", query |-> q, url |-> u]

ListArgs == [type |-> "list"]

json_loads(raw) ==
    CASE raw = "{}" -> [ok |-> TRUE, value |-> DictArgs("", "")]
      [] raw = "{\"query\": \"q\"}" -> [ok |-> TRUE, value |-> DictArgs("q", "")]
      [] raw = "{\"url\": \"https://x\"}" -> [ok |-> TRUE, value |-> DictArgs("", "https://x")]
      [] raw = "[1]" -> [ok |-> TRUE, value |-> ListArgs]
      [] OTHER -> [ok |-> FALSE]

\* raw_args = arguments or "{}"; try json.loads, {} on JSONDecodeError.
\* "escaped" is TRUE iff an exception leaves the try statement.
ParseArgsLettingDecodeErrorsEscape(raw) ==
    LET raw_args == IF raw = "" THEN "{}" ELSE raw
        parsed == json_loads(raw_args)
    IN  IF parsed.ok THEN [escaped |-> FALSE, value |-> parsed.value]
        ELSE [escaped |-> TRUE, value |-> DictArgs("", "")]

parse_args(raw) ==
    LET raw_args == IF raw = "" THEN "{}" ELSE raw
        parsed == json_loads(raw_args)
    IN  IF parsed.ok THEN [escaped |-> FALSE, value |-> parsed.value]
        ELSE [escaped |-> FALSE, value |-> DictArgs("", "")]

\* What a tool function hands back to its caller: a result dict, or an
\* exception.  "called" names the tool implementation that was entered.
Returned(tool, value) == [raised |-> FALSE, called |-> tool, value |-> value]

Raised(tool, exc) == [raised |-> TRUE, called |-> tool, exc |-> exc]

ATTRIBUTE_ERROR == "'list' object has no attribute 'get'"

TOOL_EXCEPTION == "unexpected failure"

\* Outcomes of the network/browser part of a tool, chosen by the environment.
ToolOutcomes == {"ok", "error", "raise"}

urlparse_scheme(url) ==
    CASE url = "https://x" -> "https"
      [] url = "ftp://z" -> "ftp"
      [] OTHER -> ""

ValidateUrlAcceptingAnyScheme(url) ==
    IF url = "" THEN "url is required" ELSE ""

validate_url(url) ==
    IF url = "" THEN "url is required"
    ELSE IF urlparse_scheme(url) \notin {"http", "https"}
         THEN "url must start with http:// or https://"
    ELSE ""

run_web_search_tool(arguments, outcome) ==
    IF arguments.type # "dict" THEN Raised("web_search", ATTRIBUTE_ERROR)
    ELSE IF arguments.query = "" THEN Returned("web_search", [error |-> "query is required"])
    ELSE IF outcome = "raise" THEN Raised("web_search", TOOL_EXCEPTION)
    ELSE IF outcome = "error"
         THEN Returned("web_search",
                       [query |-> arguments.query, result_count |-> 0, results |-> <<>>])
    ELSE Returned("web_search",
                  [query |-> arguments.query, result_count |-> 1, results |-> <<"hit">>])

run_web_fetch_tool(arguments, outcome) ==
    IF arguments.type # "dict" THEN Raised("web_fetch", ATTRIBUTE_ERROR)
    ELSE IF validate_url(arguments.url) # ""
         THEN Returned("web_fetch", [error |-> validate_url(arguments.url)])
    ELSE IF outcome = "raise" THEN Raised("web_fetch", TOOL_EXCEPTION)
    ELSE IF outcome = "error"
         THEN Returned("web_fetch", [url |-> arguments.url, error |-> "HTTP request failed: timeout"])
    ELSE Returned("web_fetch", [url |-> arguments.url, status_code |-> 200, text |-> "page"])

run_web_render_tool(arguments, outcome) ==
    IF arguments.type # "dict" THEN Raised("web_render", ATTRIBUTE_ERROR)
    ELSE IF validate_url(arguments.url) # ""
         THEN Returned("web_render", [error |-> validate_url(arguments.url)])
    ELSE IF outcome = "raise" THEN Raised("web_render", TOOL_EXCEPTION)
    ELSE IF outcome = "error"
         THEN Returned("web_render", [url |-> arguments.url, error |-> "Browser render failed: timeout"])
    ELSE Returned("web_render", [url |-> arguments.url, status_code |-> 200, text |-> "page"])

\* TRUE iff the call gets as far as the network/browser part of its tool,
\* the only place where the environment's outcome matters.
ReachesBackend(tool_name, arguments) ==
    /\ tool_name \in KnownTools
    /\ arguments.type = "dict"
    /\ IF tool_name = "web_search" THEN arguments.query # ""
       ELSE validate_url(arguments.url) = ""

UnknownToolError(tool_name) == [error |-> <<"Unknown tool: ", tool_name>>]

ExecuteToolRoutingAllToSearch(tool_name, parsed_args, outcome) ==
    IF tool_name = "web_fetch" THEN run_web_fetch_tool(parsed_args, outcome)
    ELSE IF tool_name = "web_render" THEN run_web_render_tool(parsed_args, outcome)
    ELSE run_web_search_tool(parsed_args, outcome)

execute_tool(tool_name, parsed_args, outcome) ==
    IF tool_name = "web_search" THEN run_web_search_tool(parsed_args, outcome)
    ELSE IF tool_name = "web_fetch" THEN run_web_fetch_tool(parsed_args, outcome)
    ELSE IF tool_name = "web_render" THEN run_web_render_tool(parsed_args, outcome)
    ELSE Returned("none", UnknownToolError(tool_name))

ExecutionFailedError(tool_name, exc) == [error |-> <<tool_name, " execution failed: ", exc>>]

\* try: tool_result = _execute_tool(...) except Exception: tool_result = {...}
\* "escaped" is TRUE iff the exception leaves the try statement.
GuardedToolResultLettingExceptionsEscape(tool_name, parsed_args, outcome) ==
    LET r == execute_tool(tool_name, parsed_args, outcome)
    IN  IF r.raised
        THEN [escaped |-> TRUE, called |-> r.called, exc |-> r.exc]
        ELSE [escaped |-> FALSE, called |-> r.called, tool_result |-> r.value]

guarded_tool_result(tool_name, parsed_args, outcome) ==
    LET r == execute_tool(tool_name, parsed_args, outcome)
    IN  IF r.raised
        THEN [escaped |-> FALSE, called |-> r.called,
              tool_result |-> ExecutionFailedError(tool_name, r.exc)]
        ELSE [escaped |-> FALSE, called |-> r.called, tool_result |-> r.value]

\* json.dumps(tool_result)
json_dumps(value) == [json |-> value]

ToolCall(id, name, arguments) == [id |-> id, name |-> name, arguments |-> arguments]

\* The plain looping request: one valid web_search call.
PlainToolCalls == << ToolCall("tc_1", "web_search", "{\"query\": \"q\"}") >>

\* The tool-call lists a response may carry.
ToolCallLists ==
    { PlainToolCalls,
      << ToolCall("tc_1", "nonexistent_tool", "") >>,
      << ToolCall("tc_1", "web_fetch", "{bad") >>,
      << ToolCall("tc_1", "web_render", "[1]") >>,
      << ToolCall("tc_1", "web_render", "{\"url\": \"https://x\"}"),
         ToolCall("tc_2", "web_fetch", "{\"url\": \"https://x\"}") >> }

\* The contents a response may carry.
Contents ==
    { StrContent(<<>>), StrContent(<<" ">>), StrContent(<<"a">>),
      StrContent(<<" ", "b", " ">>), ListContent(<<<<"c">>, <<" ">>>>), NoneContent }

PlainContent == StrContent(<<>>)

(***************************************************************************)
(* State of one ai_answer invocation                                       *)
(***************************************************************************)
VARIABLES
    pc,                  \* AWAITING_MODEL, HANDLING_TOOLS, FALLBACK_COMPLETION, DONE, RAISED
    step,                \* the loop variable of "for step in range(MAX_TOOL_STEPS)"
    messages,            \* the message history
    last_assistant_text, \* stripped text of the latest loop response
    pending,             \* tool calls of the current response not yet executed
    result,              \* the returned string (<<>> until ai_answer returns)
    requests,            \* log: completion requests issued (history sent, tools offered)
    responses,           \* log: responses received, in order
    tool_log,            \* log: the tool calls dispatched, in order
    varied               \* deviations from the plain looping behaviour so far

vars == <<pc, step, messages, last_assistant_text, pending, result,
          requests, responses, tool_log, varied>>

(***************************************************************************)
(* State of one run_comment_listener call (reddit_listener.py) and of the  *)
(* module-level URL cache (tools.py).  Each part of the program is studied *)
(* by a specification of its own, in which the other parts take no step.   *)
(***************************************************************************)
VARIABLES
    lpc,                  \* position of the stream-consuming thread
    shutdown,             \* shutdown_event.is_set()
    shutdown_set_at,      \* observation: lpc when the event was set ("UNSET" if never)
    stream_failures,      \* the local counter of run_comment_listener
    consecutive_failures, \* observation: stream failures since the stream last delivered or ended
    backoff,              \* the local "backoff" of the except block (0 before any failure)
    consumed,             \* observation: items taken from the stream so far
    comment,              \* the item being handled
    comments_read,        \* stats.comments_read
    comments_written,     \* stats.comments_written
    stats_lock,           \* holder of stats_lock: FREE, LISTENER or LOGGER
    reply_log,            \* observation: comment.reply calls made for the current item
    handled,              \* observation: how the handling of each consumed item ended
    returned,             \* return value of run_comment_listener (NOT_RETURNED until it returns)
    logger_pc,            \* position of the _log_status thread
    logger_snapshot       \* the locals comments_read, comments_written of _log_status

lvars == <<lpc, shutdown, shutdown_set_at, stream_failures, consecutive_failures,
           backoff, consumed, comment, comments_read, comments_written, stats_lock,
           reply_log, handled, returned, logger_pc, logger_snapshot>>

VARIABLES
    url_cache,            \* _url_cache: cache key -> (timestamp, result), or NoEntry
    now,                  \* time.time()
    last_call             \* observation: the latest web_fetch / web_render call

cvars == <<url_cache, now, last_call>>

VARIABLES
    raw_results,          \* the "results" list of a SearXNG payload
    deduped               \* what _deduplicate_results returned for it, if called

dvars == <<raw_results, deduped>>

VARIABLES
    tpc,                  \* position inside build_thread_transcript
    parts,                \* the list "parts", each string by its length
    ancestors,            \* the list "ancestors"
    transcript,           \* the first value returned
    submission,           \* trigger_comment.submission
    image_urls            \* the second value returned

tvars == <<tpc, parts, ancestors, transcript, submission, image_urls>>

SystemMessage == [role |-> "system", content |-> "SYSTEM_PROMPT_TEMPLATE"]

UserMessage == [role |-> "user", content |-> "PROMPT_HEADER_TEMPLATE"]

FallbackSystemMessage == [role |-> "system", content |-> FALLBACK_INSTRUCTION]

\* A response message: its content, its tool calls, and whether the message
\* object offers model_dump (the provider's objects do, plain objects do not).
Response(content, tool_calls, dumpable) ==
    [content |-> content, tool_calls |-> tool_calls, has_model_dump |-> dumpable]

\* messages.append(assistant_message.model_dump(exclude_none=True)), or the
\* role/content dict when the message object has no model_dump.
AssistantMessage(resp) ==
    IF resp.has_model_dump
    THEN IF resp.content.type = "none"
         THEN [role |-> "assistant", tool_calls |-> resp.tool_calls]
         ELSE [role |-> "assistant", content |-> resp.content, tool_calls |-> resp.tool_calls]
    ELSE [role |-> "assistant", content |-> message_content_to_text(resp.content)]

ToolMessageKeyedByName(tool_call, tool_result) ==
    [role |-> "tool", tool_call_id |-> tool_call.name, name |-> tool_call.name,
     content |-> json_dumps(tool_result)]

ToolMessage(tool_call, tool_result) ==
    [role |-> "tool", tool_call_id |-> tool_call.id, name |-> tool_call.name,
     content |-> json_dumps(tool_result)]

\* A completion request as logged: how much history it carried and whether
\* it offered the tool schemas (tools=TOOL_DEFINITIONS, tool_choice="auto").
\* A dispatched tool call as logged: the call, the arguments it was given,
\* the tool implementation entered ("none" if none was) and whether that
\* implementation raised.
Dispatch(tool_call, parsed_args, outcome) ==
    LET r == execute_tool(tool_call.name, parsed_args, outcome)
    IN  [id |-> tool_call.id, name |-> tool_call.name,
         arguments |-> tool_call.arguments, args |-> parsed_args,
         called |-> r.called, raised |-> r.raised,
         exc |-> IF r.raised THEN r.exc ELSE ""]

RequestWithFirstTwoMessages(history, with_tools) == [nmessages |-> 2, tools |-> with_tools]

Request(history, with_tools) == [nmessages |-> Len(history), tools |-> with_tools]

\* Where the for loop goes after an iteration that ended with "continue".
AfterContinueOneStepMore(next_step) ==
    IF next_step <= MAX_TOOL_STEPS THEN "AWAITING_MODEL" ELSE "FALLBACK_COMPLETION"

\* Leaving the loop without the fallback completion: the function returns
\* without a string.
AfterContinueWithoutFallback(next_step) ==
    IF next_step < MAX_TOOL_STEPS THEN "AWAITING_MODEL" ELSE "DONE"

AfterContinue(next_step) ==
    IF next_step < MAX_TOOL_STEPS THEN "AWAITING_MODEL" ELSE "FALLBACK_COMPLETION"

\* return final_text.strip() or "I'm sorry, I couldn't generate a response right now."
FinalAnswerUnstripped(content) ==
    LET final_text == message_content_to_text(content)
    IN  IF final_text # <<>> THEN final_text ELSE APOLOGY_NO_RESPONSE

FinalAnswerWithoutApology(content) == Strip(message_content_to_text(content))

FinalAnswer(content) ==
    LET final_text == message_content_to_text(content)
    IN  IF Strip(final_text) # <<>> THEN Strip(final_text) ELSE APOLOGY_NO_RESPONSE

\* The three returns that end the fallback path.
FallbackAnswerPreferringLoopText(content, last_text) ==
    LET fallback_text == Strip(message_content_to_text(content))
    IN  IF last_text # <<>> THEN last_text
        ELSE IF fallback_text # <<>> THEN fallback_text
        ELSE APOLOGY_NOT_RELIABLE

FallbackAnswer(content, last_text) ==
    LET fallback_text == Strip(message_content_to_text(content))
    IN  IF fallback_text # <<>> THEN fallback_text
        ELSE IF last_text # <<>> THEN last_text
        ELSE APOLOGY_NOT_RELIABLE

\* last_assistant_text = message_content_to_text(content).strip()
LatestText(content, previous) == Strip(message_content_to_text(content))

\* isinstance(tool_calls, list) and tool_calls
RequestsTools(resp) == resp.tool_calls # <<>>

\* Cost, in deviations, of a response that requests tools.
ResponseCost(resp) ==
    (IF resp.content = PlainContent THEN 0 ELSE 1)
    + (IF resp.tool_calls = PlainToolCalls THEN 0 ELSE 1)
    + (IF resp.has_model_dump THEN 0 ELSE 1)

AgentInit ==
    /\ pc = AfterContinue(0)
    /\ step = 0
    /\ messages = <<SystemMessage, UserMessage>>
    /\ last_assistant_text = <<>>
    /\ pending = <<>>
    /\ result = <<>>
    /\ requests = <<>>
    /\ responses = <<>>
    /\ tool_log = <<>>
    /\ varied = 0

\* client.chat.completions.create(...) raises (or the response has no
\* choices): nothing in ai_answer catches it.
CompletionRaises ==
    /\ pc = "AWAITING_MODEL"
    /\ requests' = Append(requests, Request(messages, TRUE))
    /\ pc' = "RAISED"
    /\ UNCHANGED <<step, messages, last_assistant_text, pending, result,
                   responses, tool_log, varied>>
    /\ UNCHANGED <<lvars, cvars, dvars, tvars>>

\* A loop response that requests tool calls.
CompletionRequestsTools ==
    /\ pc = "AWAITING_MODEL"
    /\ \E content \in Contents, tool_calls \in ToolCallLists, dumpable \in BOOLEAN :
         LET resp == Response(content, tool_calls, dumpable) IN
         /\ varied + ResponseCost(resp) <= MaxVaried
         /\ varied' = varied + ResponseCost(resp)
         /\ requests' = Append(requests, Request(messages, TRUE))
         /\ responses' = Append(responses, resp)
         /\ last_assistant_text' = LatestText(resp.content, last_assistant_text)
         /\ RequestsTools(resp)
         /\ messages' = Append(messages, AssistantMessage(resp))
         /\ pending' = resp.tool_calls
         /\ pc' = "HANDLING_TOOLS"
    /\ UNCHANGED <<step, result, tool_log>>
    /\ UNCHANGED <<lvars, cvars, dvars, tvars>>

\* A loop response without tool calls: ai_answer returns.
CompletionFinal ==
    /\ pc = "AWAITING_MODEL"
    /\ \E content \in Contents :
         LET resp == Response(content, <<>>, TRUE) IN
         /\ requests' = Append(requests, Request(messages, TRUE))
         /\ responses' = Append(responses, resp)
         /\ last_assistant_text' = LatestText(resp.content, last_assistant_text)
         /\ ~RequestsTools(resp)
         /\ result' = FinalAnswer(resp.content)
         /\ pc' = "DONE"
    /\ UNCHANGED <<step, messages, pending, tool_log, varied>>
    /\ UNCHANGED <<lvars, cvars, dvars, tvars>>

\* One iteration of "for tool_call in tool_calls"; after the last call the
\* outer loop continues.
ExecuteToolCall ==
    /\ pc = "HANDLING_TOOLS"
    /\ pending # <<>>
    /\ \E outcome \in ToolOutcomes :
         LET tool_call == Head(pending)
             parsed == parse_args(tool_call.arguments)
             guarded == guarded_tool_result(tool_call.name, parsed.value, outcome)
             cost == IF outcome = "ok" THEN 0 ELSE 1
         IN
         /\ outcome # "ok" => ReachesBackend(tool_call.name, parsed.value)
         /\ varied + cost <= MaxVaried
         /\ varied' = varied + cost
         /\ IF parsed.escaped
            THEN /\ pc' = "RAISED"
                 /\ UNCHANGED <<tool_log, messages, pending, step>>
            ELSE /\ tool_log' = Append(tool_log, Dispatch(tool_call, parsed.value, outcome))
                 /\ IF guarded.escaped
                    THEN /\ pc' = "RAISED"
                         /\ UNCHANGED <<messages, pending, step>>
                    ELSE /\ messages' = Append(messages,
                                               ToolMessage(tool_call, guarded.tool_result))
                         /\ pending' = Tail(pending)
                         /\ IF Tail(pending) = <<>>
                            THEN /\ step' = step + 1
                                 /\ pc' = AfterContinue(step + 1)
                            ELSE /\ step' = step
                                 /\ pc' = "HANDLING_TOOLS"
    /\ UNCHANGED <<last_assistant_text, result, requests, responses>>
    /\ UNCHANGED <<lvars, cvars, dvars, tvars>>

\* The fallback request raises: nothing in ai_answer catches it.
FallbackRaises ==
    /\ pc = "FALLBACK_COMPLETION"
    /\ messages' = Append(messages, FallbackSystemMessage)
    /\ requests' = Append(requests, Request(messages', FALSE))
    /\ pc' = "RAISED"
    /\ UNCHANGED <<step, last_assistant_text, pending, result,
                   responses, tool_log, varied>>
    /\ UNCHANGED <<lvars, cvars, dvars, tvars>>

\* Tool steps exhausted: the system instruction, one request without tools,
\* and the return.
FallbackCompletion ==
    /\ pc = "FALLBACK_COMPLETION"
    /\ \E content \in Contents, tool_calls \in {<<>>, PlainToolCalls} :
         LET resp == Response(content, tool_calls, TRUE) IN
         /\ messages' = Append(messages, FallbackSystemMessage)
         /\ requests' = Append(requests, Request(messages', FALSE))
         /\ responses' = Append(responses, resp)
         /\ result' = FallbackAnswer(resp.content, last_assistant_text)
         /\ pc' = "DONE"
    /\ UNCHANGED <<step, last_assistant_text, pending, tool_log, varied>>
    /\ UNCHANGED <<lvars, cvars, dvars, tvars>>

AgentNext ==
    \/ CompletionRaises
    \/ CompletionRequestsTools
    \/ CompletionFinal
    \/ ExecuteToolCall
    \/ FallbackRaises
    \/ FallbackCompletion

(***************************************************************************)
(* The comment listener (reddit_listener.py)                               *)
(***************************************************************************)
MAX_STREAM_RETRIES == 5

STREAM_RETRY_BACKOFF == <<10, 30, 60, 120, 300>>

\* The default of the parameter "retries" of _reply_with_retry; the listener
\* never passes another value.
retries == 3

\* The stream delivers at most this many items in one run.
MaxComments == 2

Min(a, b) == IF a <= b THEN a ELSE b

\* STREAM_RETRY_BACKOFF[min(stream_failures, len(STREAM_RETRY_BACKOFF) - 1)],
\* with Python's 0-based index.
StreamBackoffAfterCounting(failures) ==
    STREAM_RETRY_BACKOFF[Min(failures + 1, Len(STREAM_RETRY_BACKOFF) - 1) + 1]

stream_backoff(failures) ==
    STREAM_RETRY_BACKOFF[Min(failures, Len(STREAM_RETRY_BACKOFF) - 1) + 1]

\* if stream_failures > MAX_STREAM_RETRIES: return 1
GivesUpOneFailureEarlier(failures) == failures >= MAX_STREAM_RETRIES

gives_up(failures) == failures > MAX_STREAM_RETRIES

\* One iteration of "for attempt in range(retries)": comment.reply(text)
\* returns (ok) or raises.
ReplyAttemptRetryingOnceMore(attempt, ok) ==
    IF ok THEN [status |-> "returned", wait |-> 0]
    ELSE IF attempt < retries
         THEN [status |-> "retry", wait |-> 2 ^ (attempt + 1)]
         ELSE [status |-> "raised", wait |-> 0]

reply_attempt(attempt, ok) ==
    IF ok THEN [status |-> "returned", wait |-> 0]
    ELSE IF attempt < retries - 1
         THEN [status |-> "retry", wait |-> 2 ^ (attempt + 1)]
         ELSE [status |-> "raised", wait |-> 0]

\* Where the listener goes after one reply attempt: the next attempt, the
\* counting of the reply, or, the exception of the last attempt being caught
\* by the inner "except Exception", the rate-limit sleep.
AfterReplyLettingFailureEscape(status) ==
    CASE status = "retry" -> "REPLYING"
      [] status = "returned" -> "REPLIED"
      [] status = "raised" -> "STREAM_ERROR"

AfterReplyCountingFailure(status) ==
    CASE status = "retry" -> "REPLYING"
      [] status = "returned" -> "REPLIED"
      [] status = "raised" -> "REPLIED"

AfterReplyLeavingRetryBehind(status) ==
    CASE status = "retry" -> "AWAITING_COMMENT"
      [] status = "returned" -> "REPLIED"
      [] status = "raised" -> "RATE_LIMIT"

after_reply(status) ==
    CASE status = "retry" -> "REPLYING"
      [] status = "returned" -> "REPLIED"
      [] status = "raised" -> "RATE_LIMIT"

\* if shutdown_event.is_set(): break    (in the handler of a stream error)
AfterStreamErrorIgnoringShutdown(is_set) == "COUNT_FAILURE"

after_stream_error(is_set) == IF is_set THEN "RETURNED" ELSE "COUNT_FAILURE"

\* "with stats_lock:" is entered only when no thread holds the lock.
LockAvailableAlways(lock) == TRUE

lock_available(lock) == lock = "FREE"

\* The value of "returned" while run_comment_listener is running.
NOT_RETURNED == -1

NoComment == [id |-> 0, matches |-> FALSE]

Handled(item, outcome) == [item |-> item, outcome |-> outcome]

\* The state after "stream_failures = 0" at line 101: the status thread is
\* started and nothing has been read.
ListenerInit ==
    /\ lpc = "LOOP_CHECK"
    /\ shutdown = FALSE
    /\ shutdown_set_at = "UNSET"
    /\ stream_failures = 0
    /\ consecutive_failures = 0
    /\ backoff = 0
    /\ consumed = 0
    /\ comment = NoComment
    /\ comments_read = 0
    /\ comments_written = 0
    /\ stats_lock = "FREE"
    /\ reply_log = <<>>
    /\ handled = <<>>
    /\ returned = NOT_RETURNED
    /\ logger_pc = "IDLE"
    /\ logger_snapshot = <<0, 0>>

\* while not shutdown_event.is_set(): ... return 0
AfterLoopCheckIgnoringShutdown(is_set) == "AWAITING_COMMENT"

after_loop_check(is_set) == IF is_set THEN "RETURNED" ELSE "AWAITING_COMMENT"

LoopCheck ==
    /\ lpc = "LOOP_CHECK"
    /\ lpc' = after_loop_check(shutdown)
    /\ returned' = IF lpc' = "RETURNED" THEN 0 ELSE returned
    /\ UNCHANGED <<shutdown, shutdown_set_at, stream_failures, consecutive_failures,
                   backoff, consumed, comment, comments_read, comments_written,
                   stats_lock, reply_log, handled, logger_pc, logger_snapshot>>
    /\ UNCHANGED <<vars, cvars, dvars, tvars>>

\* "for comment in stream" yields an item.
StreamDelivers ==
    /\ lpc = "AWAITING_COMMENT"
    /\ consumed < MaxComments
    /\ \E matches \in BOOLEAN :
         comment' = [id |-> consumed + 1, matches |-> matches]
    /\ consumed' = consumed + 1
    /\ consecutive_failures' = 0
    /\ lpc' = "GOT_COMMENT"
    /\ UNCHANGED <<shutdown, shutdown_set_at, stream_failures, backoff,
                   comments_read, comments_written, stats_lock, reply_log, handled,
                   returned, logger_pc, logger_snapshot>>
    /\ UNCHANGED <<vars, cvars, dvars, tvars>>

\* The stream ends without an exception: stream_failures = 0 (line 137).
StreamEnds ==
    /\ lpc = "AWAITING_COMMENT"
    /\ stream_failures' = 0
    /\ consecutive_failures' = 0
    /\ lpc' = "LOOP_CHECK"
    /\ UNCHANGED <<shutdown, shutdown_set_at, backoff, consumed, comment,
                   comments_read, comments_written, stats_lock, reply_log, handled,
                   returned, logger_pc, logger_snapshot>>
    /\ UNCHANGED <<vars, cvars, dvars, tvars>>

\* Opening or reading the stream raises: control passes to the outer
\* "except Exception".
StreamFails ==
    /\ lpc = "AWAITING_COMMENT"
    /\ consecutive_failures' = consecutive_failures + 1
    /\ lpc' = "STREAM_ERROR"
    /\ UNCHANGED <<shutdown, shutdown_set_at, stream_failures, backoff, consumed,
                   comment, comments_read, comments_written, stats_lock, reply_log,
                   handled, returned, logger_pc, logger_snapshot>>
    /\ UNCHANGED <<vars, cvars, dvars, tvars>>

\* if shutdown_event.is_set(): break
AfterItemCheckIgnoringShutdown(is_set) == "COUNT_READ"

after_item_check(is_set) == IF is_set THEN "LOOP_CHECK" ELSE "COUNT_READ"

\* Lines 109-113: a set event breaks out of the for loop, which runs into
\* "stream_failures = 0"; otherwise the thread enters "with stats_lock".
BeginItem ==
    /\ lpc = "GOT_COMMENT"
    /\ lpc' = after_item_check(shutdown)
    /\ IF lpc' = "LOOP_CHECK"
       THEN /\ stream_failures' = 0
            /\ handled' = Append(handled, Handled(comment.id, "shutdown"))
            /\ UNCHANGED stats_lock
       ELSE /\ lock_available(stats_lock)
            /\ stats_lock' = "LISTENER"
            /\ UNCHANGED <<stream_failures, handled>>
    /\ UNCHANGED <<shutdown, shutdown_set_at, consecutive_failures, backoff, consumed,
                   comment, comments_read, comments_written, reply_log, returned,
                   logger_pc, logger_snapshot>>
    /\ UNCHANGED <<vars, cvars, dvars, tvars>>

\* Lines 115-123, which stand outside the inner try: trigger.match(
\* comment.body) and the two log calls that read comment.subreddit,
\* comment.id and comment.body.  An exception raised there leaves the for
\* loop for the outer "except Exception"; otherwise a match goes on to the
\* responder and "continue" asks the stream for the next item.
AfterTriggerTestSleepingOnSkip(matches, raised) ==
    IF raised THEN "STREAM_ERROR"
    ELSE IF matches THEN "RESPONDING" ELSE "RATE_LIMIT"

after_trigger_test(matches, raised) ==
    IF raised THEN "STREAM_ERROR"
    ELSE IF matches THEN "RESPONDING" ELSE "AWAITING_COMMENT"

\* Lines 125-132: after responder(comment) returned or raised.
AfterResponderSkippingSleep(ok) == IF ok THEN "REPLYING" ELSE "AWAITING_COMMENT"

after_responder(ok) == IF ok THEN "REPLYING" ELSE "RATE_LIMIT"

\* stats.comments_read += 1, the lock released, then the trigger test and
\* the logging of the trigger.
CountRead ==
    /\ lpc = "COUNT_READ"
    /\ comments_read' = comments_read + 1
    /\ stats_lock' = "FREE"
    /\ \E raised \in BOOLEAN :
         /\ lpc' = after_trigger_test(comment.matches, raised)
         /\ handled' = IF raised
                       THEN Append(handled, Handled(comment.id, "handling_raised"))
                       ELSE IF comment.matches THEN handled
                       ELSE Append(handled, Handled(comment.id, "skipped"))
    /\ UNCHANGED <<shutdown, shutdown_set_at, stream_failures, consecutive_failures,
                   backoff, consumed, comment, comments_written, reply_log, returned,
                   logger_pc, logger_snapshot>>
    /\ UNCHANGED <<vars, cvars, dvars, tvars>>

\* reply_text = responder(comment): it returns, or it raises and the inner
\* "except Exception" logs the failure.
Respond ==
    /\ lpc = "RESPONDING"
    /\ \E ok \in BOOLEAN :
         /\ lpc' = after_responder(ok)
         /\ handled' = IF ok THEN handled
                       ELSE Append(handled, Handled(comment.id, "responder_failed"))
    /\ reply_log' = <<>>
    /\ UNCHANGED <<shutdown, shutdown_set_at, stream_failures, consecutive_failures,
                   backoff, consumed, comment, comments_read, comments_written,
                   stats_lock, returned, logger_pc, logger_snapshot>>
    /\ UNCHANGED <<vars, cvars, dvars, tvars>>

\* One comment.reply(text) call of _reply_with_retry, with the sleep that
\* follows a failed attempt that is not the last.
Reply ==
    /\ lpc = "REPLYING"
    /\ \E ok \in BOOLEAN :
         LET r == reply_attempt(Len(reply_log), ok) IN
         /\ reply_log' = Append(reply_log, [ok |-> ok, wait |-> r.wait])
         /\ lpc' = after_reply(r.status)
         /\ handled' = IF r.status = "raised"
                       THEN Append(handled, Handled(comment.id, "reply_failed"))
                       ELSE handled
    /\ UNCHANGED <<shutdown, shutdown_set_at, stream_failures, consecutive_failures,
                   backoff, consumed, comment, comments_read, comments_written,
                   stats_lock, returned, logger_pc, logger_snapshot>>
    /\ UNCHANGED <<vars, cvars, dvars, tvars>>

\* "with stats_lock:" at line 128.
LockForWritten ==
    /\ lpc = "REPLIED"
    /\ lock_available(stats_lock)
    /\ stats_lock' = "LISTENER"
    /\ lpc' = "COUNT_WRITTEN"
    /\ UNCHANGED <<shutdown, shutdown_set_at, stream_failures, consecutive_failures,
                   backoff, consumed, comment, comments_read, comments_written,
                   reply_log, handled, returned, logger_pc, logger_snapshot>>
    /\ UNCHANGED <<vars, cvars, dvars, tvars>>

\* stats.comments_written += 1, the lock released.
CountWritten ==
    /\ lpc = "COUNT_WRITTEN"
    /\ comments_written' = comments_written + 1
    /\ stats_lock' = "FREE"
    /\ handled' = Append(handled, Handled(comment.id, "replied"))
    /\ lpc' = "RATE_LIMIT"
    /\ UNCHANGED <<shutdown, shutdown_set_at, stream_failures, consecutive_failures,
                   backoff, consumed, comment, comments_read, reply_log, returned,
                   logger_pc, logger_snapshot>>
    /\ UNCHANGED <<vars, cvars, dvars, tvars>>

\* time.sleep(reddit_rate_limit_sec), then the for loop asks for the next item.
RateLimitSleep ==
    /\ lpc = "RATE_LIMIT"
    /\ lpc' = "AWAITING_COMMENT"
    /\ UNCHANGED <<shutdown, shutdown_set_at, stream_failures, consecutive_failures,
                   backoff, consumed, comment, comments_read, comments_written,
                   stats_lock, reply_log, handled, returned, logger_pc,
                   logger_snapshot>>
    /\ UNCHANGED <<vars, cvars, dvars, tvars>>

\* Lines 139-141: the handler of a stream error reads the event once.
StreamErrorPolled ==
    /\ lpc = "STREAM_ERROR"
    /\ lpc' = after_stream_error(shutdown)
    /\ returned' = IF lpc' = "RETURNED" THEN 0 ELSE returned
    /\ UNCHANGED <<shutdown, shutdown_set_at, stream_failures, consecutive_failures,
                   backoff, consumed, comment, comments_read, comments_written,
                   stats_lock, reply_log, handled, logger_pc, logger_snapshot>>
    /\ UNCHANGED <<vars, cvars, dvars, tvars>>

\* Lines 142-156: the backoff is chosen, the failure counted, and the
\* listener gives up or goes to sleep.
CountFailure ==
    /\ lpc = "COUNT_FAILURE"
    /\ backoff' = stream_backoff(stream_failures)
    /\ stream_failures' = stream_failures + 1
    /\ IF gives_up(stream_failures')
       THEN lpc' = "RETURNED" /\ returned' = 1
       ELSE lpc' = "BACKOFF" /\ returned' = returned
    /\ UNCHANGED <<shutdown, shutdown_set_at, consecutive_failures, consumed, comment,
                   comments_read, comments_written, stats_lock, reply_log, handled,
                   logger_pc, logger_snapshot>>
    /\ UNCHANGED <<vars, cvars, dvars, tvars>>

\* time.sleep(backoff), then the while loop is tested again.
BackoffSleep ==
    /\ lpc = "BACKOFF"
    /\ lpc' = "LOOP_CHECK"
    /\ UNCHANGED <<shutdown, shutdown_set_at, stream_failures, consecutive_failures,
                   backoff, consumed, comment, comments_read, comments_written,
                   stats_lock, reply_log, handled, returned, logger_pc,
                   logger_snapshot>>
    /\ UNCHANGED <<vars, cvars, dvars, tvars>>

\* Another thread (the signal handler of main) sets the event, at any
\* moment before the listener has returned.
SignalShutdown ==
    /\ ~shutdown
    /\ lpc # "RETURNED"
    /\ shutdown' = TRUE
    /\ shutdown_set_at' = lpc
    /\ UNCHANGED <<lpc, stream_failures, consecutive_failures, backoff, consumed,
                   comment, comments_read, comments_written, stats_lock, reply_log,
                   handled, returned, logger_pc, logger_snapshot>>
    /\ UNCHANGED <<vars, cvars, dvars, tvars>>

\* _log_status, lines 32-33: the loop test, then "with stats_lock:".
LoggerWakes ==
    /\ logger_pc = "IDLE"
    /\ IF shutdown
       THEN logger_pc' = "EXITED" /\ UNCHANGED stats_lock
       ELSE /\ lock_available(stats_lock)
            /\ stats_lock' = "LOGGER"
            /\ logger_pc' = "READ_READ"
    /\ UNCHANGED <<lpc, shutdown, shutdown_set_at, stream_failures,
                   consecutive_failures, backoff, consumed, comment, comments_read,
                   comments_written, reply_log, handled, returned, logger_snapshot>>
    /\ UNCHANGED <<vars, cvars, dvars, tvars>>

\* comments_read = stats.comments_read
LoggerReadsRead ==
    /\ logger_pc = "READ_READ"
    /\ logger_snapshot' = <<comments_read, logger_snapshot[2]>>
    /\ logger_pc' = "READ_WRITTEN"
    /\ UNCHANGED <<lpc, shutdown, shutdown_set_at, stream_failures,
                   consecutive_failures, backoff, consumed, comment, comments_read,
                   comments_written, stats_lock, reply_log, handled, returned>>
    /\ UNCHANGED <<vars, cvars, dvars, tvars>>

\* comments_written = stats.comments_written, the lock released, the status
\* line written and shutdown_event.wait(60) entered.
LoggerReadsWritten ==
    /\ logger_pc = "READ_WRITTEN"
    /\ logger_snapshot' = <<logger_snapshot[1], comments_written>>
    /\ stats_lock' = "FREE"
    /\ logger_pc' = "IDLE"
    /\ UNCHANGED <<lpc, shutdown, shutdown_set_at, stream_failures,
                   consecutive_failures, backoff, consumed, comment, comments_read,
                   comments_written, reply_log, handled, returned>>
    /\ UNCHANGED <<vars, cvars, dvars, tvars>>

\* The steps of the stream-consuming thread.
ListenerThread ==
    \/ LoopCheck
    \/ StreamDelivers
    \/ StreamEnds
    \/ StreamFails
    \/ BeginItem
    \/ CountRead
    \/ Respond
    \/ Reply
    \/ LockForWritten
    \/ CountWritten
    \/ RateLimitSleep
    \/ StreamErrorPolled
    \/ CountFailure
    \/ BackoffSleep

\* The steps of the _log_status thread.
LoggerThread ==
    \/ LoggerWakes
    \/ LoggerReadsRead
    \/ LoggerReadsWritten

ListenerNext ==
    \/ LoopCheck
    \/ StreamDelivers
    \/ StreamEnds
    \/ StreamFails
    \/ BeginItem
    \/ CountRead
    \/ Respond
    \/ Reply
    \/ LockForWritten
    \/ CountWritten
    \/ RateLimitSleep
    \/ StreamErrorPolled
    \/ CountFailure
    \/ BackoffSleep
    \/ SignalShutdown
    \/ LoggerWakes
    \/ LoggerReadsRead
    \/ LoggerReadsWritten

(***************************************************************************)
(* The URL cache and the tools that use it (tools.py)                      *)
(***************************************************************************)
URL_CACHE_TTL == 300

DEFAULT_MAX_CHARS == 20000

DEFAULT_RENDER_MAX_CHARS == 20000

\* The clock advances TickSeconds at a time, MaxTicks times at most.
TickSeconds == 150

MaxTicks == 3

Max(a, b) == IF a >= b THEN a ELSE b

ToolKinds == {"fetch", "render"}

\* URLs the tools are called with: one that passes _validate_url, two that
\* do not.
ToolUrls == {"https://x", "ftp://z", ""}

\* cache_key = f"fetch:{url}" / f"render:{url}"
CacheKeyIgnoringKind(kind, url) == <<"fetch", url>>

cache_key(kind, url) == <<kind, url>>

\* The keys a lookup in the dict may use.
CacheKeys == {<<kind, url>> : kind \in ToolKinds, url \in ToolUrls}

\* A key without an entry in the dict.
NoEntry == [present |-> FALSE]

\* _url_cache[url] = (timestamp, result)
Entry(ts, cached) == [present |-> TRUE, ts |-> ts, result |-> cached]

\* time.time() - ts > _URL_CACHE_TTL
ExpiredAtTtl(ts, t) == t - ts >= URL_CACHE_TTL

expired(ts, t) == t - ts > URL_CACHE_TTL

\* _get_cached at time t: the dict afterwards, and the stored result or
\* None (hit = FALSE).
GetCachedRefreshingOnHit(cache, key, t) ==
    LET entry == cache[key]
    IN  IF ~entry.present THEN [cache |-> cache, hit |-> FALSE]
        ELSE IF expired(entry.ts, t)
             THEN [cache |-> [cache EXCEPT ![key] = NoEntry], hit |-> FALSE]
        ELSE [cache |-> [cache EXCEPT ![key] = Entry(t, entry.result)],
              hit |-> TRUE, result |-> entry.result]

get_cached(cache, key, t) ==
    LET entry == cache[key]
    IN  IF ~entry.present THEN [cache |-> cache, hit |-> FALSE]
        ELSE IF expired(entry.ts, t)
             THEN [cache |-> [cache EXCEPT ![key] = NoEntry], hit |-> FALSE]
        ELSE [cache |-> cache, hit |-> TRUE, result |-> entry.result]

\* _set_cached at time t.
set_cached(cache, key, cached, t) == [cache EXCEPT ![key] = Entry(t, cached)]

\* A text is represented by the number of its characters; an excerpt of n
\* characters is the prefix of that length.
truncate_text(text, max_chars) ==
    IF text <= max_chars
    THEN [text |-> text, truncated |-> FALSE]
    ELSE [text |-> max_chars, truncated |-> TRUE]

\* The arguments of a web_fetch / web_render call.  max_chars is an int or
\* absent; include_links is a bool (absent counts as True).
ToolArgs(url, has_max_chars, max_chars, include_links) ==
    [url |-> url, has_max_chars |-> has_max_chars, max_chars |-> max_chars,
     include_links |-> include_links]

ArgumentSets ==
    {ToolArgs(url, FALSE, 0, FALSE) : url \in ToolUrls}
    \cup {ToolArgs("https://x", FALSE, 0, TRUE)}
    \cup {ToolArgs("https://x", TRUE, n, TRUE) : n \in {100, 30000}}

\* max_chars = max(500, min(max_chars, DEFAULT_MAX_CHARS)), the default
\* standing in for a value that is not an int.
EffectiveMaxCharsUnclamped(kind, arguments) ==
    LET default == IF kind = "fetch" THEN DEFAULT_MAX_CHARS ELSE DEFAULT_RENDER_MAX_CHARS
    IN  IF arguments.has_max_chars THEN arguments.max_chars ELSE default

effective_max_chars(kind, arguments) ==
    LET default == IF kind = "fetch" THEN DEFAULT_MAX_CHARS ELSE DEFAULT_RENDER_MAX_CHARS
        asked == IF arguments.has_max_chars THEN arguments.max_chars ELSE default
    IN  Max(500, Min(asked, default))

\* What the network or the browser answers: an error (an exception inside
\* _http_get or the Playwright block, or Playwright missing), or a page
\* with a readable text of some length and with or without links.
BackendError == [error |-> TRUE]

Page(text_length, has_links) ==
    [error |-> FALSE, text_length |-> text_length, has_links |-> has_links]

BackendAnswers ==
    {BackendError} \cup {Page(n, l) : n \in {400, 30000}, l \in BOOLEAN}

\* The result dict of a call that loaded the page.  "links" is TRUE iff
\* the dict has the key "links"; "content_type" is TRUE iff it has the keys
\* "content_type" and "bytes_truncated", which only web_fetch sets.
fresh_result(kind, url, answer, max_chars, include_links) ==
    LET excerpt == truncate_text(answer.text_length, max_chars)
    IN  [url |-> url, text |-> excerpt.text, text_length |-> answer.text_length,
         text_truncated |-> excerpt.truncated,
         links |-> include_links /\ answer.has_links,
         content_type |-> kind = "fetch"]

\* {**result, "_full_text": text}
with_full_text(r, full_text) ==
    [url |-> r.url, text |-> r.text, text_length |-> r.text_length,
     text_truncated |-> r.text_truncated, links |-> r.links,
     content_type |-> r.content_type, full_text |-> full_text]

\* The result dict built from a cached one: re-truncated to the max_chars
\* of this call, "_full_text" popped.
HitResultWithStoredExcerpt(cached, max_chars) ==
    [url |-> cached.url, text |-> cached.text, text_length |-> cached.text_length,
     text_truncated |-> cached.text_truncated, links |-> cached.links,
     content_type |-> cached.content_type]

hit_result(cached, max_chars) ==
    LET excerpt == truncate_text(cached.full_text, max_chars)
    IN  [url |-> cached.url, text |-> excerpt.text, text_length |-> cached.text_length,
         text_truncated |-> excerpt.truncated, links |-> cached.links,
         content_type |-> cached.content_type]

\* return {"url": url, "error": ...}
error_result(url) == [url |-> url, error |-> "request failed"]

\* What _get_cached returned when it returned None, or was not called.
None == [none |-> TRUE]

\* run_web_fetch_tool / run_web_render_tool at time t: the dict afterwards,
\* the result returned, whether _get_cached was called, what it returned,
\* whether it deleted the entry, and whether the network (the browser) was
\* used.
WebToolCachingErrors(kind, arguments, cache, t, answer) ==
    LET url == arguments.url
        max_chars == effective_max_chars(kind, arguments)
        key == cache_key(kind, url)
        cached == get_cached(cache, key, t)
        removed == cache[key].present /\ ~cached.cache[key].present
        failed == fresh_result(kind, url, Page(0, FALSE), max_chars, FALSE)
    IN  IF validate_url(url) # ""
        THEN [cache |-> cache, read |-> FALSE, cached |-> None, removed |-> FALSE,
              backend |-> FALSE, result |-> [error |-> validate_url(url)]]
        ELSE IF cached.hit
        THEN [cache |-> cached.cache, read |-> TRUE, cached |-> cached.result,
              removed |-> removed, backend |-> FALSE,
              result |-> hit_result(cached.result, max_chars)]
        ELSE IF answer.error
        THEN [cache |-> set_cached(cached.cache, key, with_full_text(failed, 0), t),
              read |-> TRUE, cached |-> None,
              removed |-> removed, backend |-> TRUE,
              result |-> error_result(url)]
        ELSE LET fresh == fresh_result(kind, url, answer, max_chars, arguments.include_links)
             IN  [cache |-> set_cached(cached.cache, key,
                                       with_full_text(fresh, answer.text_length), t),
                  read |-> TRUE, cached |-> None, removed |-> removed,
                  backend |-> TRUE, result |-> fresh]

WebToolWithoutCacheCheck(kind, arguments, cache, t, answer) ==
    LET url == arguments.url
        max_chars == effective_max_chars(kind, arguments)
        key == cache_key(kind, url)
    IN  IF validate_url(url) # ""
        THEN [cache |-> cache, read |-> FALSE, cached |-> None, removed |-> FALSE,
              backend |-> FALSE, result |-> [error |-> validate_url(url)]]
        ELSE IF answer.error
        THEN [cache |-> cache, read |-> FALSE, cached |-> None, removed |-> FALSE,
              backend |-> TRUE, result |-> error_result(url)]
        ELSE LET fresh == fresh_result(kind, url, answer, max_chars, arguments.include_links)
             IN  [cache |-> set_cached(cache, key,
                                       with_full_text(fresh, answer.text_length), t),
                  read |-> FALSE, cached |-> None, removed |-> FALSE,
                  backend |-> TRUE, result |-> fresh]

web_tool(kind, arguments, cache, t, answer) ==
    LET url == arguments.url
        max_chars == effective_max_chars(kind, arguments)
        key == cache_key(kind, url)
        cached == get_cached(cache, key, t)
        removed == cache[key].present /\ ~cached.cache[key].present
    IN  IF validate_url(url) # ""
        THEN [cache |-> cache, read |-> FALSE, cached |-> None, removed |-> FALSE,
              backend |-> FALSE, result |-> [error |-> validate_url(url)]]
        ELSE IF cached.hit
        THEN [cache |-> cached.cache, read |-> TRUE, cached |-> cached.result,
              removed |-> removed, backend |-> FALSE,
              result |-> hit_result(cached.result, max_chars)]
        ELSE IF answer.error
        THEN [cache |-> cached.cache, read |-> TRUE, cached |-> None,
              removed |-> removed, backend |-> TRUE,
              result |-> error_result(url)]
        ELSE LET fresh == fresh_result(kind, url, answer, max_chars, arguments.include_links)
             IN  [cache |-> set_cached(cached.cache, key,
                                       with_full_text(fresh, answer.text_length), t),
                  read |-> TRUE, cached |-> None, removed |-> removed,
                  backend |-> TRUE, result |-> fresh]

(***************************************************************************)
(* web_search (tools.py).  URLs and queries are sequences of characters,   *)
(* so that str.strip is computed.                                          *)
(***************************************************************************)
SEARXNG_MAX_RETRIES == 2

\* A raw result of the SearXNG JSON API: its "url" ("" when the key is
\* missing or null) and its "engines" list, if it has the key.
RawResult(url, has_engines, engines) ==
    [url |-> url, has_engines |-> has_engines, engines |-> engines]

\* r.get("engines", [])
engines_of(r) == IF r.has_engines THEN r.engines ELSE <<>>

\* list(dict.fromkeys(names))
RECURSIVE fromkeys(_, _)
fromkeys(names, kept) ==
    IF names = <<>> THEN kept
    ELSE IF \E i \in 1..Len(kept) : kept[i] = Head(names)
         THEN fromkeys(Tail(names), kept)
         ELSE fromkeys(Tail(names), Append(kept, Head(names)))

\* The body of the for loop of _deduplicate_results; "seen" is the dict as
\* the sequence of its (key, value) items in insertion order.
RECURSIVE DedupKeepingLastEngines(_, _)
DedupKeepingLastEngines(results, seen) ==
    IF results = <<>> THEN seen
    ELSE LET r == Head(results)
             url == Strip(r.url)
             known == {i \in 1..Len(seen) : seen[i].key = url}
         IN  IF url = <<>> THEN DedupKeepingLastEngines(Tail(results), seen)
             ELSE IF known # {}
             THEN LET i == CHOOSE i \in known : TRUE
                      merged == engines_of(r)
                  IN  DedupKeepingLastEngines(Tail(results),
                            [seen EXCEPT ![i].value =
                                RawResult(seen[i].value.url, TRUE, merged)])
             ELSE DedupKeepingLastEngines(Tail(results),
                                          Append(seen, [key |-> url, value |-> r]))

RECURSIVE dedup(_, _)
dedup(results, seen) ==
    IF results = <<>> THEN seen
    ELSE LET r == Head(results)
             url == Strip(r.url)
             known == {i \in 1..Len(seen) : seen[i].key = url}
         IN  IF url = <<>> THEN dedup(Tail(results), seen)
             ELSE IF known # {}
             THEN LET i == CHOOSE i \in known : TRUE
                      merged == fromkeys(engines_of(seen[i].value) \o engines_of(r), <<>>)
                  IN  dedup(Tail(results),
                            [seen EXCEPT ![i].value =
                                RawResult(seen[i].value.url, TRUE, merged)])
             ELSE dedup(Tail(results), Append(seen, [key |-> url, value |-> r]))

\* _deduplicate_results: list(seen.values())
deduplicate_results(results) ==
    LET seen == dedup(results, <<>>)
    IN  [i \in 1..Len(seen) |-> seen[i].value]

\* _format_search_results, for the keys "url" and "engines".
format_search_results(results) ==
    [i \in 1..Len(results) |->
        [url |-> Strip(results[i].url), engines |-> engines_of(results[i])]]

\* What the backend answers to one request: a failure (an exception in
\* requests.get, raise_for_status or resp.json), or a payload whose
\* "results" is a list.
SearchFailure == [ok |-> FALSE]

Payload(results) == [ok |-> TRUE, results |-> results]

\* cap = max_results if isinstance(max_results, int) else 5;
\* results[: max(cap, 0)]
capped(results, has_max_results, max_results) ==
    LET cap == IF has_max_results THEN max_results ELSE 5
    IN  SubSeq(results, 1, Min(Len(results), Max(cap, 0)))

\* if attempt <= SEARXNG_MAX_RETRIES: time.sleep(SEARXNG_RETRY_DELAY)
SleepsAfterEveryFailure(attempt) == attempt <= SEARXNG_MAX_RETRIES + 1

sleeps_after_failure(attempt) == attempt <= SEARXNG_MAX_RETRIES

\* for attempt in range(1, SEARXNG_MAX_RETRIES + 2)
attempts_left(attempt) == attempt < SEARXNG_MAX_RETRIES + 2

\* The retry loop of _fetch_searxng from the given attempt on: the list it
\* returns, the requests and sleeps it makes, in order, and how each
\* request ended.
RECURSIVE searxng_loop(_, _, _, _, _, _)
searxng_loop(attempt, answers, has_max_results, max_results, trace, outcomes) ==
    IF ~attempts_left(attempt)
    THEN [results |-> <<>>, trace |-> trace, outcomes |-> outcomes]
    ELSE LET answer == answers[attempt]
             requested == Append(trace, "request")
         IN  IF answer.ok
             THEN [results |-> capped(answer.results, has_max_results, max_results),
                   trace |-> requested, outcomes |-> Append(outcomes, "ok")]
             ELSE searxng_loop(attempt + 1, answers, has_max_results, max_results,
                               IF sleeps_after_failure(attempt)
                               THEN Append(requested, "sleep") ELSE requested,
                               Append(outcomes, "fail"))

fetch_searxng(query, has_max_results, max_results, answers) ==
    searxng_loop(1, answers, has_max_results, max_results, <<>>, <<>>)

\* The arguments of a web_search call: time_range is a string, "" when it
\* is not given.
SearchArgs(query, has_max_results, max_results, time_range) ==
    [query |-> query, has_max_results |-> has_max_results,
     max_results |-> max_results, time_range |-> time_range]

\* The query parameters of the requests, for "q" and "time_range" ("": the
\* key is not set).
\* if time_range in {"day", "month", "year"}: params["time_range"] = time_range
search_params(query, time_range) ==
    [q |-> query,
     time_range |-> IF time_range \in {"day", "month", "year"} THEN time_range ELSE ""]

\* No request was made.
NoParams == [q |-> <<>>, time_range |-> ""]

\* run_web_search_tool: the result dict, with the requests and sleeps made.
run_web_search(arguments, answers) ==
    LET query == Strip(arguments.query)
    IN  IF query = <<>>
        THEN [result |-> [error |-> "query is required"], trace |-> <<>>,
              outcomes |-> <<>>, params |-> NoParams]
        ELSE LET raw == fetch_searxng(query, arguments.has_max_results,
                                      arguments.max_results, answers)
                 formatted == format_search_results(deduplicate_results(raw.results))
             IN  [result |-> [query |-> query, result_count |-> Len(formatted),
                              results |-> formatted],
                  trace |-> raw.trace, outcomes |-> raw.outcomes,
                  params |-> search_params(query, arguments.time_range)]

UrlNames == <<"a", "b", "c", "d", "e", "f", "g", "h", "i", "j", "k", "l">>

TwelvePages == [i \in 1..12 |-> RawResult(<<UrlNames[i]>>, TRUE, <<"google">>)]

\* The backend's answers to up to four successive requests: the first
\* request that succeeds is the given one.
SucceedsAt(first) ==
    [i \in 1..4 |-> IF i < first THEN SearchFailure ELSE Payload(TwelvePages)]

AlwaysFails == [i \in 1..4 |-> SearchFailure]

\* The inputs of the web_search calls, each with the backend's answers: an
\* empty and a blank query; a plain query answered at the first, second or
\* third request or never; max_results of 2 and 11; each time_range of the
\* tool's schema.
SearchInputs ==
    {<<SearchArgs(query, FALSE, 0, ""), AlwaysFails>> : query \in {<<>>, <<" ">>}}
    \cup {<<SearchArgs(<<"q">>, FALSE, 0, ""), answers>> :
             answers \in {SucceedsAt(first) : first \in 1..3} \cup {AlwaysFails}}
    \cup {<<SearchArgs(<<"q">>, TRUE, n, ""), SucceedsAt(1)>> : n \in {2, 11}}
    \cup {<<SearchArgs(<<"q">>, FALSE, 0, time_range), SucceedsAt(1)>> :
             time_range \in {"day", "week", "month", "year"}}

SearchCall(arguments, t, r) ==
    [kind |-> "search", arguments |-> arguments, at |-> t, read |-> FALSE,
     cached |-> None, removed |-> FALSE, backend |-> r.trace # <<>>,
     result |-> r.result, trace |-> r.trace, outcomes |-> r.outcomes,
     params |-> r.params]

\* The latest call as observed: what was called with what, when, and what
\* web_tool reported about it.
Call(kind, arguments, t, r) ==
    [kind |-> kind, arguments |-> arguments, at |-> t, read |-> r.read,
     cached |-> r.cached, removed |-> r.removed, backend |-> r.backend,
     result |-> r.result]

NoCall == [kind |-> "none"]

\* An empty dict at time 0.
CacheInit ==
    /\ url_cache = [key \in CacheKeys |-> NoEntry]
    /\ now = 0
    /\ last_call = NoCall

WebFetch ==
    /\ \E arguments \in ArgumentSets, answer \in BackendAnswers :
         LET r == web_tool("fetch", arguments, url_cache, now, answer) IN
         /\ url_cache' = r.cache
         /\ last_call' = Call("fetch", arguments, now, r)
    /\ UNCHANGED now
    /\ UNCHANGED <<vars, lvars, dvars, tvars>>

WebRender ==
    /\ \E arguments \in ArgumentSets, answer \in BackendAnswers :
         LET r == web_tool("render", arguments, url_cache, now, answer) IN
         /\ url_cache' = r.cache
         /\ last_call' = Call("render", arguments, now, r)
    /\ UNCHANGED now
    /\ UNCHANGED <<vars, lvars, dvars, tvars>>

\* run_web_search_tool: it neither reads nor writes the cache.
WebSearch ==
    /\ \E input \in SearchInputs :
         last_call' = SearchCall(input[1], now, run_web_search(input[1], input[2]))
    /\ UNCHANGED <<url_cache, now>>
    /\ UNCHANGED <<vars, lvars, dvars, tvars>>

\* Time passes between calls.
ClockAdvances ==
    /\ now + TickSeconds <= MaxTicks * TickSeconds
    /\ now' = now + TickSeconds
    /\ UNCHANGED <<url_cache, last_call>>
    /\ UNCHANGED <<vars, lvars, dvars, tvars>>

CacheNext ==
    \/ WebFetch
    \/ WebRender
    \/ WebSearch
    \/ ClockAdvances

(***************************************************************************)
(* _deduplicate_results on the lists a SearXNG payload can hold            *)
(* (tools.py).  SearXNG builds each "engines" list from a set, so a list   *)
(* names no engine twice.                                                  *)
(***************************************************************************)
MaxRaw == 3

RawUrls == {<<>>, <<"a">>, <<"a", " ">>, <<"b">>}

RawEngines == {<<"google">>, <<"bing", "google">>}

RawResults ==
    {RawResult(url, FALSE, <<>>) : url \in RawUrls}
    \cup {RawResult(url, TRUE, engines) : url \in RawUrls, engines \in RawEngines}

\* "deduped" before _deduplicate_results has been called on raw_results.
NotCalled == <<[url |-> <<>>, has_engines |-> FALSE, engines |-> <<"not called">>]>>

DedupInit ==
    /\ raw_results = <<>>
    /\ deduped = NotCalled

\* The payload holds one more result.
PayloadGrows ==
    /\ Len(raw_results) < MaxRaw
    /\ \E r \in RawResults : raw_results' = Append(raw_results, r)
    /\ deduped' = NotCalled
    /\ UNCHANGED <<vars, lvars, cvars, tvars>>

Deduplicate ==
    /\ deduped = NotCalled
    /\ deduped' = deduplicate_results(raw_results)
    /\ UNCHANGED raw_results
    /\ UNCHANGED <<vars, lvars, cvars, tvars>>

DedupNext ==
    \/ PayloadGrows
    \/ Deduplicate

(***************************************************************************)
(* build_thread_transcript (transcript.py).  A string is represented by    *)
(* its length, and the transcript by the positions lo..hi it holds of the  *)
(* string "\n".join(parts).                                                *)
(***************************************************************************)
MAX_CHARS == 40000

MaxAncestors == 2

Text(lo, hi) == [lo |-> lo, hi |-> hi]

text_len(t) == t.hi - t.lo + 1

\* A submission: the lengths of its permalink, its title and its stripped
\* selftext (0: not a self post, or no selftext), the length of the URL it
\* links to when that is an external page and no image or video (0
\* otherwise), and the image URLs lines 60-94 collect from it (its URL, its
\* selftext, its gallery), in that order.
Submission(permalink, title, selftext, external, images) ==
    [permalink |-> permalink, title |-> title, selftext |-> selftext,
     external |-> external, images |-> images]

Submissions ==
    {Submission(20, 10, selftext, external, <<>>) :
        selftext \in {0, 39000}, external \in {0, 30}}
    \cup {Submission(20, 10, selftext, 0, <<"p", "q">>) : selftext \in {0, 39000}}

NoSubmission == Submission(0, 0, 0, 0, <<>>)

\* A comment of the chain: the length of its author's name (0: cm.author is
\* None), the length of its stripped body, a single line, and the image
\* URLs extract_image_urls_from_text finds in the body (none repeated).
Comment(author, body, images) == [author |-> author, body |-> body, images |-> images]

Comments ==
    {Comment(author, body, <<>>) : author \in {0, 5}, body \in {0, 10, 30000}}
    \cup {Comment(5, 30000, images) :
             images \in {<<"q", "r", "s">>, <<"s", "t", "u", "p">>}}

\* The parts up to and including "\n---", for a subreddit name of 3
\* characters.
header_parts(sub) ==
    <<13 + 3, 38 + sub.permalink + 1>>
    \o (IF sub.external > 0 THEN <<19 + sub.external + 1>> ELSE <<>>)
    \o <<18 + sub.title>>
    \o (IF sub.selftext > 0 THEN <<sub.selftext>> ELSE <<>>)
    \o <<4>>

\* f"{author} wrote:\n{quoted}\n", "[deleted]" and "[empty]" standing in
\* for a missing author and an empty body, INDENT prefixed to the body.
comment_part(cm) ==
    LET author == IF cm.author > 0 THEN cm.author ELSE 9
        body == IF cm.body > 0 THEN cm.body ELSE 7
    IN  author + 8 + (2 + body) + 1

\* ancestors.reverse()
RECURSIVE reverse(_)
reverse(list) ==
    IF list = <<>> THEN <<>> ELSE Append(reverse(Tail(list)), Head(list))

\* len("\n".join(parts))
RECURSIVE join_length(_)
join_length(list) ==
    IF list = <<>> THEN 0
    ELSE IF Len(list) = 1 THEN Head(list)
    ELSE Head(list) + 1 + join_length(Tail(list))

\* t[-n:] for n > 0
KeepingHead(t, n) == Text(t.lo, Min(t.hi, t.lo + n - 1))

last_chars(t, n) == Text(t.lo + Max(text_len(t) - n, 0), t.hi)

\* if len(transcript) > config.MAX_CHARS: transcript = transcript[-config.MAX_CHARS:]
truncate_transcript(t) ==
    IF text_len(t) > MAX_CHARS THEN last_chars(t, MAX_CHARS) ELSE t

MAX_IMAGES_TO_SEND == 5

\* all_image_urls: the submission's images, then those of the comments of
\* the chain, which runs from the root to the trigger comment.
RECURSIVE chain_images(_)
chain_images(chain) ==
    IF chain = <<>> THEN <<>> ELSE Head(chain).images \o chain_images(Tail(chain))

\* list(dict.fromkeys(all_image_urls))[:MAX_IMAGES_TO_SEND]
ImagesCutBeforeDedup(urls) ==
    fromkeys(SubSeq(urls, 1, Min(Len(urls), MAX_IMAGES_TO_SEND)), <<>>)

unique_images(urls) ==
    LET unique_image_urls == fromkeys(urls, <<>>)
    IN  SubSeq(unique_image_urls, 1, Min(Len(unique_image_urls), MAX_IMAGES_TO_SEND))

TranscriptInit ==
    /\ tpc = "IDLE"
    /\ parts = <<>>
    /\ ancestors = <<>>
    /\ transcript = Text(1, 0)
    /\ submission = NoSubmission
    /\ image_urls = <<>>

\* build_thread_transcript is called for a trigger comment: lines 44-96.
StartTranscript ==
    /\ tpc \in {"IDLE", "RETURNED"}
    /\ \E sub \in Submissions :
         /\ submission' = sub
         /\ parts' = header_parts(sub)
    /\ ancestors' = <<>>
    /\ transcript' = Text(1, 0)
    /\ image_urls' = <<>>
    /\ tpc' = "WALKING"
    /\ UNCHANGED <<vars, lvars, cvars, dvars>>

\* One iteration of the while loop: c is the trigger comment or the parent
\* of the comment appended before it.  Chains are at most MaxAncestors long.
CollectAncestor ==
    /\ tpc = "WALKING"
    /\ \E c \in Comments,
          is_root \in (IF Len(ancestors) + 1 < MaxAncestors THEN BOOLEAN ELSE {TRUE}) :
         /\ ancestors' = Append(ancestors, c)
         /\ tpc' = IF is_root THEN "COLLECTED" ELSE "WALKING"
    /\ UNCHANGED <<parts, transcript, submission, image_urls>>
    /\ UNCHANGED <<vars, lvars, cvars, dvars>>

\* Lines 105-119: the comments' parts and images from the root down, the
\* join, the cut, and the image list.
BuildTranscript ==
    /\ tpc = "COLLECTED"
    /\ LET chain == reverse(ancestors)
           all == parts \o [i \in 1..Len(chain) |-> comment_part(chain[i])]
       IN  /\ parts' = all
           /\ transcript' = truncate_transcript(Text(1, join_length(all)))
           /\ image_urls' = unique_images(submission.images \o chain_images(chain))
    /\ tpc' = "RETURNED"
    /\ UNCHANGED <<ancestors, submission>>
    /\ UNCHANGED <<vars, lvars, cvars, dvars>>

TranscriptNext ==
    \/ StartTranscript
    \/ CollectAncestor
    \/ BuildTranscript

(***************************************************************************)
(* Specifications                                                          *)
(***************************************************************************)
Init == AgentInit /\ ListenerInit /\ CacheInit /\ DedupInit /\ TranscriptInit

\* One ai_answer invocation.
Spec == Init /\ [][AgentNext]_vars

\* One run_comment_listener call with its status thread.
ListenerSpec == Init /\ [][ListenerNext]_lvars

\* Every call the two threads make returns or raises (the responder, a
\* reply, a sleep, the lock), and the stream delivers, ends or fails: each
\* thread always takes its next step.
FairListenerSpec ==
    ListenerSpec /\ WF_lvars(ListenerThread) /\ WF_lvars(LoggerThread)

\* web_search, web_fetch and web_render calls against the process-wide
\* cache, as time passes.
CacheSpec == Init /\ [][CacheNext]_cvars

\* _deduplicate_results applied to the payloads of up to MaxRaw results.
DedupSpec == Init /\ [][DedupNext]_dvars

\* build_thread_transcript calls on threads of up to MaxAncestors comments.
TranscriptSpec == Init /\ [][TranscriptNext]_tvars

\* Every call returns or raises (requests carry OPENROUTER_TIMEOUT), so the
\* sequential code always takes its next step.
FairSpec == Spec /\ WF_vars(AgentNext)

(***************************************************************************)
(* Observations used by the properties                                     *)
(***************************************************************************)
\* The responses received inside the loop (the fallback response, if any,
\* is response number MAX_TOOL_STEPS + 1).
LoopResponses ==
    SubSeq(responses, 1, IF Len(responses) < MAX_TOOL_STEPS THEN Len(responses)
                         ELSE MAX_TOOL_STEPS)

TookFallback == Len(requests) > 0 /\ ~requests[Len(requests)].tools

\* The last request got no response: it raised.
RequestFailed == Len(requests) = Len(responses) + 1

ToolRequests == {i \in 1..Len(requests) : requests[i].tools}

FallbackRequests == {i \in 1..Len(requests) : ~requests[i].tools}

TrimmedText(resp) == Strip(message_content_to_text(resp.content))

(***************************************************************************)
(* C1: one invocation issues at most MAX_TOOL_STEPS + 1 completion         *)
(* requests: at most MAX_TOOL_STEPS with tool access and at most one       *)
(* fallback request without it.                                            *)
(***************************************************************************)
C1_RequestBound ==
    /\ Len(requests) <= MAX_TOOL_STEPS + 1
    /\ Cardinality(ToolRequests) <= MAX_TOOL_STEPS
    /\ Cardinality(FallbackRequests) <= 1

C1_Witness ==
    /\ pc = "DONE"
    /\ Cardinality(ToolRequests) = MAX_TOOL_STEPS
    /\ Cardinality(FallbackRequests) = 1

(***************************************************************************)
(* C2: every string ai_answer returns has at least one character, on the   *)
(* tool-free path, the fallback path and the apology paths, whatever text  *)
(* the model produced (empty and whitespace-only included).                *)
(***************************************************************************)
C2_ReturnNonEmpty == pc = "DONE" => Len(result) >= 1

C2_Witness ==
    /\ pc = "DONE"
    /\ ~TookFallback
    /\ responses[Len(responses)].content = StrContent(<<" ">>)
    /\ result = APOLOGY_NO_RESPONSE

(***************************************************************************)
(* C3 (as claimed): every invocation eventually reaches DONE and returns   *)
(* a string, whatever the outcome of the requests it makes.                *)
(***************************************************************************)
C3_AlwaysReturnsString == <>(pc = "DONE" /\ Len(result) >= 1)

(***************************************************************************)
(* C3 (amended): every invocation eventually ends, and it ends in one of   *)
(* two ways: it returns a non-empty string, or a completion request        *)
(* raised and that exception leaves ai_answer.  It never loops forever     *)
(* and never returns without a string.                                     *)
(***************************************************************************)
C3_ReturnsOrPropagates ==
    /\ <>(pc \in {"DONE", "RAISED"})
    /\ [](pc = "DONE" => Len(result) >= 1)
    /\ [](pc = "RAISED" => RequestFailed)

C3_Witness ==
    /\ pc = "RAISED"
    /\ RequestFailed
    /\ step = MAX_TOOL_STEPS
    /\ TookFallback

(***************************************************************************)
(* C4: if the first response without tool calls is the k-th response       *)
(* (1 <= k <= MAX_TOOL_STEPS), ai_answer has issued exactly k requests,    *)
(* has dispatched only the tool calls of the k-1 earlier responses, and    *)
(* returns that response's trimmed text, or the apology string when the    *)
(* trimmed text is empty.                                                  *)
(***************************************************************************)
RECURSIVE CallsRequested(_)
CallsRequested(resps) ==
    IF resps = <<>> THEN <<>>
    ELSE Head(resps).tool_calls \o CallsRequested(Tail(resps))

FirstToolFree(k) ==
    /\ k <= Len(responses)
    /\ k <= MAX_TOOL_STEPS
    /\ ~RequestsTools(responses[k])
    /\ \A j \in 1..(k - 1) : RequestsTools(responses[j])

C4_FirstToolFreeResponseReturns ==
    \A k \in 1..MAX_TOOL_STEPS :
        FirstToolFree(k) =>
            /\ pc = "DONE"
            /\ Len(requests) = k
            /\ Len(responses) = k
            /\ pending = <<>>
            /\ Len(tool_log) = Len(CallsRequested(SubSeq(responses, 1, k - 1)))
            /\ result = IF TrimmedText(responses[k]) # <<>>
                        THEN TrimmedText(responses[k])
                        ELSE APOLOGY_NO_RESPONSE

C4_Witness ==
    /\ FirstToolFree(3)
    /\ responses[3].content = StrContent(<<" ", "b", " ">>)
    /\ result = <<"b">>
    /\ Len(tool_log) = 2

(***************************************************************************)
(* C5: if the model requests tools in each of the MAX_TOOL_STEPS loop      *)
(* steps, ai_answer appends one system instruction, issues exactly one     *)
(* more request, which offers no tools and carries that instruction, and   *)
(* returns that response's (trimmed) text when it is non-empty; in total   *)
(* MAX_TOOL_STEPS + 1 requests, and no tool call of the fallback response  *)
(* is dispatched.                                                          *)
(***************************************************************************)
ToolsInEveryStep ==
    /\ Len(responses) >= MAX_TOOL_STEPS
    /\ \A j \in 1..MAX_TOOL_STEPS : RequestsTools(responses[j])

FallbackInstructions == {i \in 1..Len(messages) : messages[i] = FallbackSystemMessage}

C5_FallbackAfterExhaustedSteps ==
    (ToolsInEveryStep /\ pc \in {"DONE", "RAISED"}) =>
        /\ Len(requests) = MAX_TOOL_STEPS + 1
        /\ \A i \in 1..MAX_TOOL_STEPS : requests[i].tools
        /\ ~requests[MAX_TOOL_STEPS + 1].tools
        /\ FallbackInstructions = {Len(messages)}
        /\ requests[MAX_TOOL_STEPS + 1].nmessages = Len(messages)
        /\ Len(tool_log) = Len(CallsRequested(LoopResponses))
        /\ pc = "DONE" =>
              /\ Len(responses) = MAX_TOOL_STEPS + 1
              /\ TrimmedText(responses[MAX_TOOL_STEPS + 1]) # <<>>
                    => result = TrimmedText(responses[MAX_TOOL_STEPS + 1])

C5_Witness ==
    /\ pc = "DONE"
    /\ ToolsInEveryStep
    /\ last_assistant_text = <<"a">>
    /\ RequestsTools(responses[MAX_TOOL_STEPS + 1])
    /\ result = <<"b">>

(***************************************************************************)
(* C6 (as claimed): when the fallback response's text is empty after       *)
(* trimming, ai_answer returns the last non-empty assistant text seen in   *)
(* the loop steps, and the apology string only if no loop step produced a  *)
(* non-empty text.                                                         *)
(***************************************************************************)
NonEmptyLoopSteps == {j \in 1..Len(LoopResponses) : TrimmedText(responses[j]) # <<>>}

LastOf(S) == CHOOSE j \in S : \A i \in S : i <= j

C6_FallsBackToLastNonEmptyLoopText ==
    (pc = "DONE" /\ TookFallback /\ TrimmedText(responses[Len(responses)]) = <<>>) =>
        result = IF NonEmptyLoopSteps # {}
                 THEN TrimmedText(responses[LastOf(NonEmptyLoopSteps)])
                 ELSE APOLOGY_NOT_RELIABLE

(***************************************************************************)
(* C7: an exception raised by a tool implementation never leaves the tool  *)
(* execution step: the call yields the error result naming the tool and    *)
(* the exception text, a tool-role message is appended for that call, and  *)
(* the loop goes on (ai_answer raises only when a completion request       *)
(* raised).                                                                *)
(***************************************************************************)
ToolMessages == SelectSeq(messages, LAMBDA m : m.role = "tool")

\* ai_answer is left by an exception only when a completion request raised.
OnlyRequestsRaise == pc = "RAISED" => RequestFailed

C7_ToolExceptionsContained ==
    LET tool_messages == ToolMessages IN
    /\ OnlyRequestsRaise
    /\ pc = "HANDLING_TOOLS" => pending # <<>>
    /\ Len(tool_messages) = Len(tool_log)
    /\ \A i \in 1..Len(tool_log) :
          tool_log[i].raised =>
              tool_messages[i] =
                  [role |-> "tool", tool_call_id |-> tool_log[i].id,
                   name |-> tool_log[i].name,
                   content |-> json_dumps(
                       [error |-> <<tool_log[i].name, " execution failed: ",
                                    tool_log[i].exc>>])]

C7_Witness ==
    /\ pc = "DONE"
    /\ \E i \in 1..Len(tool_log) :
          /\ tool_log[i].raised
          /\ tool_log[i].exc = TOOL_EXCEPTION
          /\ Len(requests) > i

(***************************************************************************)
(* C8: in every loop step whose response requests tool calls, the          *)
(* assistant message is appended first, then exactly one tool-role         *)
(* message per requested call, in request order and carrying the call's    *)
(* id; all of them are in the history before the next request is issued    *)
(* (stated of the latest request in every state, hence of every request).  *)
(***************************************************************************)
Shape(m) == IF m.role = "tool" THEN <<"tool", m.tool_call_id>> ELSE <<m.role>>

RECURSIVE CallShapes(_)
CallShapes(calls) ==
    IF calls = <<>> THEN <<>>
    ELSE << <<"tool", Head(calls).id>> >> \o CallShapes(Tail(calls))

RECURSIVE ExpectedShapes(_)
ExpectedShapes(resps) ==
    IF resps = <<>> THEN <<>>
    ELSE (IF RequestsTools(Head(resps))
          THEN << <<"assistant">> >> \o CallShapes(Head(resps).tool_calls)
          ELSE <<>>)
         \o ExpectedShapes(Tail(resps))

Conversation == SelectSeq(messages, LAMBDA m : m.role \in {"assistant", "tool"})

C8_AssistantThenToolMessagesInOrder ==
    LET expected == ExpectedShapes(LoopResponses)
        conversation == Conversation
        k == Len(requests)
        \* messages that the responses before the k-th put into the history
        before == IF Len(responses) = k /\ k <= MAX_TOOL_STEPS
                     /\ RequestsTools(responses[k])
                  THEN Len(expected) - (1 + Len(responses[k].tool_calls))
                  ELSE Len(expected)
    IN  /\ Len(pending) <= Len(expected)
        /\ Len(conversation) = Len(expected) - Len(pending)
        /\ \A i \in 1..Len(conversation) : Shape(conversation[i]) = expected[i]
        /\ SubSeq(messages, 1, 2) = <<SystemMessage, UserMessage>>
        /\ pc \in {"AWAITING_MODEL", "FALLBACK_COMPLETION"} => pending = <<>>
        /\ requests # <<>> =>
              requests[k].nmessages = 2 + before + (IF requests[k].tools THEN 0 ELSE 1)

C8_Witness ==
    /\ pc = "AWAITING_MODEL"
    /\ Len(responses) = 2
    /\ Len(responses[2].tool_calls) = 2
    /\ Len(messages) = 7

(***************************************************************************)
(* C9: a tool call naming anything other than web_search, web_fetch or     *)
(* web_render enters none of the three tools, gets the result              *)
(* {error: "Unknown tool: <name>"} as its tool message, and does not       *)
(* abort the loop.                                                         *)
(***************************************************************************)
C9_UnknownToolYieldsError ==
    LET tool_messages == ToolMessages IN
    /\ \A i \in 1..Len(tool_log) :
          tool_log[i].name \notin KnownTools =>
              /\ tool_log[i].called = "none"
              /\ ~tool_log[i].raised
              /\ i <= Len(tool_messages)
              /\ tool_messages[i].tool_call_id = tool_log[i].id
              /\ tool_messages[i].content =
                     json_dumps([error |-> <<"Unknown tool: ", tool_log[i].name>>])
    /\ \A i \in 1..Len(tool_log) : tool_log[i].called \in KnownTools \cup {"none"}
    /\ OnlyRequestsRaise

C9_Witness ==
    /\ pc = "DONE"
    /\ \E i \in 1..Len(tool_log) :
          /\ tool_log[i].name = "nonexistent_tool"
          /\ Len(requests) > i

(***************************************************************************)
(* C10: a tool call whose argument string is not valid JSON is still       *)
(* dispatched, with an empty argument object; a tool-role message with     *)
(* the tool's structured result is appended and the loop goes on.          *)
(***************************************************************************)
InvalidJson(raw) == raw # "" /\ ~json_loads(raw).ok

RequiredArgumentError(tool_name) ==
    IF tool_name = "web_search" THEN "query is required" ELSE "url is required"

C10_InvalidJsonDegradesToEmptyArgs ==
    LET asked == CallsRequested(LoopResponses)
        nasked == Len(asked) - Len(pending)
        tool_messages == ToolMessages
    IN  /\ Len(tool_log) = nasked
        /\ Len(tool_messages) = nasked
        /\ \A i \in 1..nasked :
              InvalidJson(asked[i].arguments) =>
                  /\ tool_log[i].args = DictArgs("", "")
                  /\ asked[i].name \in KnownTools =>
                        /\ tool_log[i].called = asked[i].name
                        /\ tool_messages[i].content =
                               json_dumps([error |-> RequiredArgumentError(asked[i].name)])
        /\ pc = "RAISED" => pending = <<>>

C10_Witness ==
    /\ pc = "DONE"
    /\ \E i \in 1..Len(tool_log) :
          /\ tool_log[i].arguments = "{bad"
          /\ tool_log[i].called = "web_fetch"
          /\ Len(requests) > i

(***************************************************************************)
(* Properties of the comment listener                                      *)
(***************************************************************************)
\* How the handling of the current item ended ("" while it is in progress
\* or before any item).
CurrentOutcome ==
    IF handled # <<>> /\ handled[Len(handled)].item = comment.id
    THEN handled[Len(handled)].outcome
    ELSE ""

AllFailed(log) == \A i \in 1..Len(log) : ~log[i].ok

Outcomes(outcome) == {i \in 1..Len(handled) : handled[i].outcome = outcome}

\* C11: at most 3 reply calls are made for one triggering comment, no call
\* follows the first successful one, and the failure is re-raised (the
\* handling ends as failed) only after the third call has failed.
C11_AtMostThreeReplyCalls ==
    /\ Len(reply_log) <= 3
    /\ \A i \in 1..Len(reply_log) : reply_log[i].ok => i = Len(reply_log)
    /\ lpc = "REPLYING" => AllFailed(reply_log) /\ Len(reply_log) < 3
    /\ lpc \in {"REPLIED", "COUNT_WRITTEN"} => reply_log[Len(reply_log)].ok
    /\ CurrentOutcome = "reply_failed" => Len(reply_log) = 3 /\ AllFailed(reply_log)

C11_Witness ==
    /\ CurrentOutcome = "reply_failed"
    /\ Len(reply_log) = 3
    /\ \E i \in Outcomes("replied") : handled[i].item < comment.id

\* C12: the step in which the last reply attempt fails leaves the listener
\* running on the same stream (it goes to the rate-limit sleep and from
\* there to the next item), records the item as dropped and changes neither
\* the replied counter nor the stream-failure count; the replied counter
\* counts exactly the items replied to.
C12_FailedReplyIsDropped ==
    /\ [](comments_written = Cardinality(Outcomes("replied")))
    /\ [][/\ (lpc = "REPLYING" /\ Len(reply_log') = retries /\ ~reply_log'[retries].ok)
             => /\ lpc' = "RATE_LIMIT"
                /\ handled' = Append(handled, Handled(comment.id, "reply_failed"))
                /\ returned' = NOT_RETURNED
                /\ UNCHANGED <<comments_written, stream_failures, consecutive_failures,
                               backoff, consumed>>
          /\ (lpc = "RATE_LIMIT" /\ lpc' # lpc)
             => /\ lpc' = "AWAITING_COMMENT"
                /\ UNCHANGED <<comments_written, stream_failures, returned>>
         ]_lvars

C12_Witness ==
    /\ \E i \in Outcomes("reply_failed") : handled[i].item < comment.id
    /\ lpc = "RESPONDING"
    /\ comments_written = 0
    /\ stream_failures = 0
    /\ returned = NOT_RETURNED

C14_OnlyConsecutiveFailuresCount ==
    returned = 1 => consecutive_failures > MAX_STREAM_RETRIES

\* C15: the sleep before the reconnect that follows the n-th counted
\* failure lasts [10, 30, 60, 120, 300][min(n - 1, 4)] seconds, never more
\* than 300, and from one counted failure to the next it does not decrease.
C15_BackoffSchedule ==
    /\ [](lpc = "BACKOFF" =>
            /\ backoff = <<10, 30, 60, 120, 300>>[Min(stream_failures - 1, 4) + 1]
            /\ backoff <= 300)
    /\ [][(lpc = "COUNT_FAILURE" /\ lpc' = "BACKOFF" /\ stream_failures >= 1)
            => backoff' >= backoff]_lvars

C15_Witness ==
    /\ lpc = "BACKOFF"
    /\ stream_failures = 5
    /\ backoff = 300

\* C16 as stated: whenever the event was set before the listener returned,
\* the return value is 0.
C16_ShutdownAlwaysReturnsZero ==
    (lpc = "RETURNED" /\ shutdown) => returned = 0

\* C16, amended: an event set before the listener reads it (at the while
\* test, before an item, or at the start of the handler of a stream failure)
\* makes the listener return 0; only an event set after the handler of the
\* failure that exceeds the limit has read it leaves the return value at 1.
C16_ShutdownSeenAtPollReturnsZero ==
    /\ (lpc = "RETURNED" /\ shutdown /\ shutdown_set_at # "COUNT_FAILURE")
          => returned = 0
    /\ (lpc = "RETURNED" /\ shutdown /\ returned = 1)
          => shutdown_set_at = "COUNT_FAILURE" /\ stream_failures > MAX_STREAM_RETRIES

C16_Witness ==
    /\ lpc = "RETURNED"
    /\ returned = 0
    /\ shutdown_set_at = "STREAM_ERROR"
    /\ stream_failures = MAX_STREAM_RETRIES

\* C17: items are handled in stream order, one at a time: the k-th handling
\* to end is that of the k-th item, at most the latest item is still being
\* handled, and while the responder or a reply attempt of an item is
\* pending no later item has been taken from the stream.
C17_OneCommentAtATime ==
    /\ \A k \in 1..Len(handled) : handled[k].item = k
    /\ Len(handled) \in {consumed - 1, consumed} \cap Nat
    /\ Len(handled) < consumed => comment.id = consumed
    /\ lpc \in {"RESPONDING", "REPLYING", "REPLIED", "COUNT_WRITTEN"}
          => comment.id = consumed /\ Len(handled) = consumed - 1
    /\ lpc = "AWAITING_COMMENT" => Len(handled) = consumed

C17_Witness ==
    /\ Len(handled) = 1
    /\ handled[1].outcome = "reply_failed"
    /\ lpc = "REPLYING"
    /\ Len(reply_log) = 1
    /\ comment.id = 2

\* C18: the counters never decrease; they change only in a step of the
\* stream-consuming thread taken while it holds the lock; the status thread
\* changes neither, reads only while it holds the lock, and the pair it
\* logs is the pair of values the counters have at the end of that hold
\* (nothing changes between its two reads).
C18_CountersGuardedByLock ==
    [][/\ comments_read' >= comments_read
       /\ comments_written' >= comments_written
       /\ <<comments_read, comments_written>>' # <<comments_read, comments_written>>
             => /\ stats_lock = "LISTENER"
                /\ lpc \in {"COUNT_READ", "COUNT_WRITTEN"}
                /\ lpc' # lpc
                /\ UNCHANGED <<logger_pc, logger_snapshot>>
       /\ logger_pc' # logger_pc
             => UNCHANGED <<comments_read, comments_written>>
       /\ stats_lock = "LOGGER"
             => UNCHANGED <<comments_read, comments_written>>
       /\ logger_snapshot' # logger_snapshot
             => stats_lock = "LOGGER"
       /\ (logger_pc = "READ_WRITTEN" /\ logger_pc' # logger_pc)
             => logger_snapshot' = <<comments_read, comments_written>>
      ]_lvars

C18_Witness ==
    /\ logger_pc = "IDLE"
    /\ logger_snapshot = <<2, 1>>
    /\ comments_read = 2
    /\ comments_written = 1

(***************************************************************************)
(* Properties of the URL cache                                             *)
(***************************************************************************)
\* The key the latest call read, and the entry that key had before the call.
CallKey(call) ==
    IF call.kind \in ToolKinds THEN <<call.kind, call.arguments.url>>
    ELSE <<call.kind, "">>

\* C19: a read of a key whose entry is at most 300 s old returns the stored
\* result; a read of a key whose entry is older returns a miss and removes
\* the entry (the same call may store a new one); an entry disappears only
\* in a read of its own key that found it expired, and no call touches the
\* entry of another key; passing time alone changes nothing.
C19_CacheExpiry ==
    [][/\ now' = now =>
            LET call == last_call'
                key == CallKey(call)
            IN  /\ call.read => key \in CacheKeys
                /\ call.read /\ url_cache[key].present /\ now - url_cache[key].ts <= 300
                      => /\ call.cached = url_cache[key].result
                         /\ ~call.removed
                         /\ url_cache'[key] = url_cache[key]
                /\ call.read /\ url_cache[key].present /\ now - url_cache[key].ts > 300
                      => /\ call.cached = None
                         /\ call.removed
                         /\ url_cache'[key] # url_cache[key]
                         /\ url_cache'[key].present => url_cache'[key].ts = now
                /\ \A k \in CacheKeys :
                      /\ (url_cache[k].present /\ ~url_cache'[k].present)
                            => /\ call.read /\ k = key
                               /\ now - url_cache[k].ts > 300
                      /\ k # key => url_cache'[k] = url_cache[k]
       /\ now' # now => url_cache' = url_cache
      ]_cvars

C19_Witness ==
    /\ last_call # NoCall
    /\ last_call.removed
    /\ last_call.kind = "fetch"
    /\ ~url_cache[<<"fetch", "https://x">>].present
    /\ url_cache[<<"render", "https://x">>].present
    /\ now - url_cache[<<"render", "https://x">>].ts > 300

\* C20: a web_fetch / web_render call for a URL whose entry of the same
\* tool kind is at most 300 s old makes no HTTP request (no browser load)
\* and leaves the whole cache, insertion times included, as it was.
C20_CacheHitHasNoEffect ==
    [][now' = now =>
          LET call == last_call'
              key == CallKey(call)
          IN  (/\ key \in CacheKeys
               /\ url_cache[key].present
               /\ now - url_cache[key].ts <= 300)
              => /\ ~call.backend
                 /\ url_cache' = url_cache
                 /\ call.result.text_length = url_cache[key].result.text_length
      ]_cvars

C20_Witness ==
    /\ last_call # NoCall
    /\ last_call.kind = "render"
    /\ last_call.cached # None
    /\ ~last_call.backend
    /\ url_cache[<<"render", "https://x">>].ts < last_call.at
    /\ url_cache[<<"fetch", "https://x">>].present
    /\ url_cache[<<"fetch", "https://x">>].ts = last_call.at

(***************************************************************************)
(* Properties of the web tools, continued                                  *)
(***************************************************************************)

\* The character budget a call asks for, as the tool description states it:
\* max(500, min(requested, 20000)), 20000 when max_chars is absent.
RequestedBudget(arguments) ==
    Max(500, Min(IF arguments.has_max_chars THEN arguments.max_chars ELSE 20000,
                 20000))

IsWebCall(call) == call.kind \in ToolKinds

Succeeded(call) == IsWebCall(call) /\ "text" \in DOMAIN call.result

\* C21: a cache hit returns the first min(length of the stored full text,
\* budget of this call) characters of the stored full text, and
\* text_truncated says whether the full text is longer than that budget;
\* the excerpt of the call that stored the entry plays no part.
C21_HitIsCutFromFullText ==
    (IsWebCall(last_call) /\ last_call.cached # None)
        => LET full == last_call.cached.full_text
               budget == RequestedBudget(last_call.arguments)
           IN  /\ last_call.result.text = Min(full, budget)
               /\ last_call.result.text_truncated = (full > budget)

C21_Witness ==
    /\ IsWebCall(last_call)
    /\ last_call.cached # None
    /\ last_call.cached.text = 500
    /\ last_call.cached.text_truncated
    /\ last_call.result.text = 20000
    /\ last_call.result.text_length = 30000

\* C22: in every successful web_fetch / web_render result, from the cache
\* or not, the text has at most b = max(500, min(requested, 20000))
\* characters and text_truncated holds exactly when text_length exceeds b.
C22_TextWithinBudget ==
    Succeeded(last_call)
        => LET budget == RequestedBudget(last_call.arguments)
           IN  /\ last_call.result.text <= budget
               /\ last_call.result.text_truncated
                      <=> last_call.result.text_length > budget

C22_Witness ==
    /\ Succeeded(last_call)
    /\ last_call.arguments.has_max_chars
    /\ last_call.arguments.max_chars = 30000
    /\ last_call.result.text = 20000
    /\ last_call.result.text_truncated
    /\ last_call.cached = None

\* C23: an entry under a web_fetch key was stored by web_fetch and one under
\* a web_render key by web_render; a call of one tool is served only from
\* an entry of its own kind, and it stores, replaces or removes no entry of
\* the other kind.
C23_FetchAndRenderEntriesApart ==
    [][LET call == last_call'
       IN  /\ \A key \in CacheKeys :
                 url_cache'[key].present
                     => url_cache'[key].result.content_type = (key[1] = "fetch")
           /\ (now' = now /\ IsWebCall(call))
                 => /\ call.cached # None
                        => call.cached.content_type = (call.kind = "fetch")
                    /\ Succeeded(call)
                        => call.result.content_type = (call.kind = "fetch")
                    /\ \A key \in CacheKeys :
                          key[1] # call.kind => url_cache'[key] = url_cache[key]
      ]_cvars

C23_Witness ==
    /\ last_call.kind = "render"
    /\ last_call.backend
    /\ Succeeded(last_call)
    /\ url_cache[<<"render", "https://x">>].present
    /\ url_cache[<<"render", "https://x">>].ts = now
    /\ url_cache[<<"fetch", "https://x">>].present
    /\ url_cache[<<"fetch", "https://x">>].ts < now
    /\ url_cache[<<"fetch", "https://x">>].result.text_length
          # url_cache[<<"render", "https://x">>].result.text_length

\* The requests of a web_search call that passed validation.
Searched(call) == call.kind = "search" /\ "results" \in DOMAIN call.result

\* C24: one web_search sends at most SEARXNG_MAX_RETRIES + 1 = 3 requests;
\* only the last request can have succeeded, and a failed last request is
\* the third; it sleeps exactly between two requests, never after the last;
\* when all three fail the result has result_count 0 and no results, and is
\* no error.
C24_SearchRetries ==
    Searched(last_call)
        => LET outcomes == last_call.outcomes
               trace == last_call.trace
               n == Len(outcomes)
           IN  /\ n >= 1 /\ n <= 3
               /\ \A i \in 1..(n - 1) : outcomes[i] = "fail"
               /\ outcomes[n] = "fail" => n = 3
               /\ Len(trace) = 2 * n - 1
               /\ \A i \in 1..Len(trace) :
                      trace[i] = IF i % 2 = 1 THEN "request" ELSE "sleep"
               /\ outcomes[n] = "fail"
                      => /\ last_call.result.result_count = 0
                         /\ last_call.result.results = <<>>
                         /\ "error" \notin DOMAIN last_call.result

C24_Witness ==
    /\ Searched(last_call)
    /\ last_call.outcomes = <<"fail", "fail", "fail">>
    /\ last_call.trace = <<"request", "sleep", "request", "sleep", "request">>
    /\ last_call.result.result_count = 0

\* C25: a web_search returns at most the requested max_results results, at
\* most 10 when none was requested, and never more than 10.
C25_SearchResultCap ==
    Searched(last_call)
        => last_call.result.result_count
              <= (IF last_call.arguments.has_max_results
                  THEN Min(last_call.arguments.max_results, 10) ELSE 10)

\* C27: a successful result of a call with include_links = false has no
\* links, whatever calls preceded it.
C27_NoLinksWhenNotAsked ==
    (Succeeded(last_call) /\ ~last_call.arguments.include_links)
        => ~last_call.result.links

\* The validation of the arguments, as the tools' descriptions state it.
InvalidArguments(call) ==
    \/ /\ IsWebCall(call)
       /\ \/ call.arguments.url = ""
          \/ urlparse_scheme(call.arguments.url) \notin {"http", "https"}
    \/ /\ call.kind = "search"
       /\ Strip(call.arguments.query) = <<>>

C29_FailuresAreNotCached ==
    [][LET call == last_call'
           key == CallKey(call)
       IN  (now' = now /\ IsWebCall(call))
              => /\ (call.backend /\ "error" \in DOMAIN call.result)
                      => /\ call.result.url = call.arguments.url
                         /\ ~url_cache'[key].present
                         /\ \A k \in CacheKeys :
                               k # key => url_cache'[k] = url_cache[k]
                 /\ (call.read /\ ~url_cache[key].present) => call.backend
      ]_cvars

C29_Witness ==
    /\ IsWebCall(last_call)
    /\ last_call.backend
    /\ "error" \in DOMAIN last_call.result
    /\ last_call.result.url = "https://x"
    /\ last_call.removed
    /\ ~url_cache[<<last_call.kind, "https://x">>].present

(***************************************************************************)
(* Properties of the search results and of the transcript                  *)
(***************************************************************************)
\* The positions of the raw results whose stripped URL is u.
WithUrl(u) == {k \in 1..Len(raw_results) : Strip(raw_results[k].url) = u}

First(positions) == CHOOSE k \in positions : \A j \in positions : k <= j

\* The engine lists of the raw results from position k on whose stripped
\* URL is u, one after the other.
RECURSIVE EnginesFrom(_, _)
EnginesFrom(k, u) ==
    IF k > Len(raw_results) THEN <<>>
    ELSE (IF Strip(raw_results[k].url) = u
          THEN engines_of(raw_results[k]) ELSE <<>>) \o EnginesFrom(k + 1, u)

C30_TranscriptKeepsTail ==
    tpc = "RETURNED"
        => LET joined == join_length(parts)
           IN  /\ transcript.hi - transcript.lo + 1 <= MAX_CHARS
               /\ joined > MAX_CHARS
                     => transcript = Text(joined - MAX_CHARS + 1, joined)
               /\ joined <= MAX_CHARS => transcript = Text(1, joined)

C30_Witness ==
    /\ tpc = "RETURNED"
    /\ Len(ancestors) = 2
    /\ join_length(parts) > MAX_CHARS + 20000
    /\ transcript.lo > 20000
    /\ transcript.hi = join_length(parts)

(***************************************************************************)
(* Properties of the comment listener, continued                           *)
(***************************************************************************)
\* The positions at which the stream-consuming thread has an item that
\* passed the trigger test: the responder, the reply attempts, the replied
\* counter and the courtesy sleep.
TriggerPositions == {"RESPONDING", "REPLYING", "REPLIED", "COUNT_WRITTEN", "RATE_LIMIT"}

\* The items whose handling ended after they were given to the responder.
TriggersHandled ==
    Outcomes("replied") \cup Outcomes("responder_failed") \cup Outcomes("reply_failed")

C34_WrittenCountsSuccessfulReplies ==
    /\ [](/\ comments_written <= Cardinality(TriggersHandled)
          /\ Cardinality(TriggersHandled) <= comments_read
          /\ comments_written = Cardinality(Outcomes("replied")))
    /\ [][/\ comments_written' # comments_written
             => /\ comments_written' = comments_written + 1
                /\ reply_log # <<>> /\ reply_log[Len(reply_log)].ok
                /\ handled' = Append(handled, Handled(comment.id, "replied"))
          /\ (handled' # handled
              /\ handled'[Len(handled')].outcome \in {"responder_failed", "reply_failed"})
             => comments_written' = comments_written
          /\ (lpc = "REPLYING" /\ Len(reply_log') > Len(reply_log)
              /\ reply_log'[Len(reply_log')].ok)
             => lpc' = "REPLIED"
          /\ (lpc = "REPLIED" /\ lpc' # lpc) => lpc' = "COUNT_WRITTEN"
         ]_lvars

C34_Witness ==
    /\ comments_read = 2
    /\ comments_written = 1
    /\ handled = <<Handled(1, "reply_failed"), Handled(2, "replied")>>

\* The positions of the stream-consuming thread between two items or
\* between two streams.
BetweenStreams == {"LOOP_CHECK", "STREAM_ERROR", "COUNT_FAILURE", "BACKOFF"}

\* C35: an item delivered when the event is set is dropped at the test at
\* the top of the loop body: it is not counted, not given to the responder
\* and not replied to, and the listener goes to the while test; an event
\* set between two streams (during the backoff sleep, for one) is followed
\* by no stream opening; an event set while an item is being handled lets
\* that handling go on as it would have.
C35_NothingNewAfterShutdown ==
    /\ []((shutdown /\ shutdown_set_at \in BetweenStreams)
             => lpc \in BetweenStreams \cup {"RETURNED"})
    /\ []((shutdown /\ shutdown_set_at \in {"AWAITING_COMMENT", "GOT_COMMENT"})
             => lpc \in BetweenStreams \cup {"RETURNED", "AWAITING_COMMENT", "GOT_COMMENT"})
    /\ [][/\ (shutdown /\ lpc = "AWAITING_COMMENT" /\ lpc' = "GOT_COMMENT")
             => comment'.id = consumed'
          /\ (shutdown /\ lpc = "GOT_COMMENT" /\ lpc' # lpc)
             => /\ lpc' = "LOOP_CHECK"
                /\ handled' = Append(handled, Handled(comment.id, "shutdown"))
                /\ UNCHANGED <<comments_read, comments_written, reply_log>>
          /\ (shutdown /\ lpc = "LOOP_CHECK" /\ lpc' # lpc) => lpc' = "RETURNED"
          /\ (lpc = "BACKOFF" /\ lpc' # lpc) => lpc' = "LOOP_CHECK"
          /\ shutdown => shutdown'
         ]_lvars

C35_Witness ==
    /\ shutdown
    /\ shutdown_set_at = "RESPONDING"
    /\ handled = <<Handled(1, "replied"), Handled(2, "shutdown")>>
    /\ comments_read = 1
    /\ lpc = "RETURNED"

\* C36: once the event is set, run_comment_listener returns and the
\* _log_status thread leaves its loop.  The event is never cleared and
\* neither thread starts again, so "set leads to both ended" is: from some
\* moment on, the event being set means both have ended.
C36_ShutdownEndsBothThreads ==
    <>[](shutdown => (lpc = "RETURNED" /\ logger_pc = "EXITED"))

C36_Witness ==
    /\ shutdown
    /\ shutdown_set_at = "REPLYING"
    /\ lpc = "RETURNED"
    /\ returned = 0
    /\ logger_pc = "EXITED"
    /\ comments_written = 1

\* C37: the failures the listener counts, backs off for and gives up on are
\* failures of the stream: when it sleeps before a reconnect or has
\* returned 1, the stream has failed since it last delivered an item.
C37_OnlyStreamFailuresAreCounted ==
    (lpc = "BACKOFF" \/ returned = 1) => consecutive_failures > 0

\* C38: when the responder raises, no reply attempt is made for the
\* comment, comments_written and the stream-failure count stay as they are,
\* the courtesy sleep follows, and after it the for loop asks the same
\* stream for its next item.
C38_ResponderFailureIsContained ==
    /\ [](CurrentOutcome = "responder_failed" => reply_log = <<>>)
    /\ [][/\ (lpc = "RESPONDING" /\ handled' # handled)
             => /\ handled' = Append(handled, Handled(comment.id, "responder_failed"))
                /\ lpc' = "RATE_LIMIT"
                /\ UNCHANGED <<comments_written, stream_failures, consumed, returned>>
          /\ (lpc = "RATE_LIMIT" /\ CurrentOutcome = "responder_failed" /\ lpc' # lpc)
             => /\ lpc' = "AWAITING_COMMENT"
                /\ UNCHANGED <<comments_written, stream_failures, reply_log, returned>>
         ]_lvars

C38_Witness ==
    /\ handled = <<Handled(1, "responder_failed")>>
    /\ comment.id = 2
    /\ lpc = "RESPONDING"
    /\ comments_written = 0
    /\ stream_failures = 0

(***************************************************************************)
(* Properties of the message history                                       *)
(***************************************************************************)
\* C32: within one ai_answer invocation a step changes the history only by
\* appending to it, so every earlier message stays where and what it was;
\* the history sent with a request is longer than the one sent with the
\* request before it and is the history as it stands when the request is
\* made (the messages of all earlier steps, and the closing system message
\* for the fallback request); the history begins with the system message
\* and the user message.
C32_HistoryOnlyGrows ==
    /\ [](/\ Len(messages) >= 2
          /\ messages[1] = SystemMessage
          /\ messages[2] = UserMessage)
    /\ [][/\ Len(messages') >= Len(messages)
          /\ SubSeq(messages', 1, Len(messages)) = messages
          /\ requests' # requests
             => /\ Len(requests') = Len(requests) + 1
                /\ SubSeq(requests', 1, Len(requests)) = requests
                /\ requests'[Len(requests')].nmessages >= Len(messages)
                /\ requests'[Len(requests')].nmessages <= Len(messages')
                /\ requests # <<>>
                   => requests'[Len(requests')].nmessages
                         > requests[Len(requests)].nmessages
         ]_vars

C32_Witness ==
    /\ pc = "DONE"
    /\ Len(requests) = MAX_TOOL_STEPS + 1
    /\ messages[Len(messages)] = FallbackSystemMessage
    /\ Len(messages) > 2 * MAX_TOOL_STEPS + 2
    /\ requests[2].nmessages > requests[1].nmessages

\* The image URLs of the thread in the order the claim gives: the
\* submission's, then those of the comments from the root (the last of
\* "ancestors") to the trigger comment (the first).
RECURSIVE ImagesUpTo(_)
ImagesUpTo(k) ==
    IF k = 0 THEN <<>> ELSE ancestors[k].images \o ImagesUpTo(k - 1)

ThreadImages == submission.images \o ImagesUpTo(Len(ancestors))

\* C31: the returned image list names no URL twice, holds only URLs of the
\* thread, ordered by their first occurrence in the thread (submission,
\* then comments from root to trigger), and is the first
\* MAX_IMAGES_TO_SEND (5) of the thread's distinct URLs in that order.
C31_ImagesUniqueInOrderAtMostFive ==
    tpc = "RETURNED"
        => LET all == ThreadImages
               distinct == {all[k] : k \in 1..Len(all)}
               at(u) == First({k \in 1..Len(all) : all[k] = u})
               n == Len(image_urls)
           IN  /\ n <= 5
               /\ n = Min(5, Cardinality(distinct))
               /\ \A i \in 1..n : image_urls[i] \in distinct
               /\ \A i, j \in 1..n :
                     i < j => /\ image_urls[i] # image_urls[j]
                              /\ at(image_urls[i]) < at(image_urls[j])
               /\ \A u \in distinct \ {image_urls[i] : i \in 1..n} :
                     \A i \in 1..n : at(image_urls[i]) < at(u)

C31_Witness ==
    /\ tpc = "RETURNED"
    /\ submission.images = <<"p", "q">>
    /\ Len(ancestors) = 2
    /\ ancestors[2].images = <<"q", "r", "s">>
    /\ ancestors[1].images = <<"s", "t", "u", "p">>
    /\ image_urls = <<"p", "q", "r", "s", "t">>

(***************************************************************************)
(* Properties of the search parameters and of the insertion times          *)
(***************************************************************************)
\* C39: a time_range of day, week, month or year given to web_search is the
\* time_range parameter of the requests it sends.
C39_TimeRangeForwarded ==
    (Searched(last_call)
     /\ last_call.arguments.time_range \in {"day", "week", "month", "year"})
        => last_call.params.time_range = last_call.arguments.time_range

\* C40: a hit leaves the entry and its insertion time as they were; a read
\* more than 300 s after the insertion time is a miss; an entry gets an
\* insertion time (a first one or a new one) only in a call that missed,
\* went to the network (the browser) and succeeded, and that time is the
\* time of the call; insertion times are never in the future.
C40_HitsDoNotRefresh ==
    /\ [](\A key \in CacheKeys : url_cache[key].present => url_cache[key].ts <= now)
    /\ [][LET call == last_call'
              key == CallKey(call)
          IN  (now' = now /\ IsWebCall(call))
                 => /\ call.cached # None => url_cache'[key] = url_cache[key]
                    /\ (call.read /\ url_cache[key].present
                        /\ now > url_cache[key].ts + 300)
                          => call.cached = None
                    /\ (/\ url_cache'[key].present
                        /\ \/ ~url_cache[key].present
                           \/ url_cache'[key].ts # url_cache[key].ts)
                          => /\ call.cached = None
                             /\ call.backend
                             /\ Succeeded(call)
                             /\ url_cache'[key].ts = now
         ]_cvars

C40_Witness ==
    /\ IsWebCall(last_call)
    /\ last_call.cached # None
    /\ last_call.at = 300
    /\ now = 300
    /\ url_cache[CallKey(last_call)].present
    /\ url_cache[CallKey(last_call)].ts = 0

=============================================================================
